---- MODULE Spec2Model ----
(***************************************************************************)
(* TyphoonHQuickInterface (custom/src/TyphoonHQuickInterface.cc): the      *)
(* QtQuick binding layer of the ST16 controller, as built for the          *)
(* controller itself (__androidx86__, release, not __planner__).           *)
(*                                                                         *)
(* Every slot, invokable and timer callback of the class is one action;    *)
(* the Qt event loop runs them one at a time on the UI thread.  The        *)
(* signals a handler emits are recorded, in order, in emitted; the calls   *)
(* it makes into the platform bridge (JNI) and the M4 handler in calls;    *)
(* op names the handler that ran last, with its arguments.                 *)
(***************************************************************************)
EXTENDS Integers, Sequences, FiniteSets, TLC

\* ------------------------------------------------------------------ bounds
\* Pending QTimer::singleShot callbacks of one kind that may be outstanding.
MaxShots == 2
\* Bytes of the largest source file, and the bytes one read may return: the 4 MiB of
\* READ_CHUNK_SIZE on the scale of these files.
MaxFileLen == 3
ChunkLen == 2
\* TyphoonHFileCopy objects that may be created, and worker signals that may be
\* queued for the UI thread.
MaxWorkers == 2
MaxQueue == 2
\* Mission files on the card, nested _importMissions invocations, and YExportFiles
\* objects running at once.
MaxFiles == 2
MaxDepth == 2
MaxExporters == 2

\* Telemetry log files in the log directory when init runs.
MaxLogs == 3

\* ------------------------------------------------------------- input sets
\* SSIDs the platform may report or the UI may pass; "" is the empty string.
TyphoonSSIDs == {"CGOET_1", "E90_2"}
OtherSSIDs == {"HomeNet"}
RSSIs == {-70, -40}
NULL == "NULL"
\* No bindSSID request has been made of the platform since the last disconnect.
NoBind == [ssid |-> "NULL", pwd |-> "NULL", state |-> "none"]
Bytes == {0, 1}
\* _pFileCopy when it is NULL; the workers are numbered from 1.
NoWorker == 0

VARIABLES
    \* ---- TyphoonHQuickInterface members
    _ssidList,           \* QVariantList of TyphoonSSIDItem: <<[ssid, rssi], ...>>
    _scanEnabled,
    _scanningWiFi,
    _bindingWiFi,
    _ssid,
    _password,
    _passwordSet,
    _firstRun,
    _configurations,     \* QMap<QString,QString>: SSID -> password
    _vehicle,
    _vehicleInReadyState,
    _pHandler,           \* TRUE while the TyphoonHM4Interface pointer is set
    \* ---- QSettings
    settingsWifi,        \* the kWifiConfig group: key -> value
    settingsFirstRun,    \* kFirstRun
    settingsSecondRun,   \* kSecondRun
    \* ---- timers
    scanTimerActive,     \* _scanTimer (single shot, 2 s) is running
    scanShots,           \* pending QTimer::singleShot(delay, _scanWifi)
    bindShots,           \* pending QTimer::singleShot(5000, _delayedBind)
    timeoutShots,        \* pending QTimer::singleShot(15000, _bindTimeout)
    restartShots,        \* pending QTimer::singleShot(500, _restart)
    \* ---- platform side
    bindReq,             \* the bindSSID request: its arguments, and whether it is
                         \* "pending", or was answered "connected" or "failed"
    pwdSetSinceBind,     \* <<pwd>> of the last setWiFiPassword made while the
                         \* request was pending, <<>> when there was none
    \* ---- firmware update (TyphoonHQuickInterface side)
    _pFileCopy,          \* id of the TyphoonHFileCopy pointed at, or NoWorker
    _updateError,
    _updateDone,
    _updateProgress,     \* shared by the firmware update, the export and the import
    workers,             \* every TyphoonHFileCopy created: id -> state of its thread
    uiQueue,             \* worker signals queued for the UI thread, oldest first
    \* ---- TyphoonHFileCopy::startCopy, one run
    srcFile,             \* bytes of _src
    dstFile,             \* the file at _dst, or NoFile
    fcPc,                \* "idle", "loop" or "returned"
    fcOutOpen,           \* outFile was opened by this run
    fcPos,               \* read position of inFile
    fcTotal,
    fcCurrent,
    fcSignals,           \* the signals of the run, in order
    \* ---- export / import
    _copyingFiles,
    _copyingDone,
    _copyMessage,
    _exporter,           \* TRUE while the YExportFiles pointer is set
    exportersRunning,    \* YExportFiles objects that have not reported completed
    importShots,         \* pending QTimer::singleShot(10, _importMissions)
    impStack,            \* _importMissions invocations that have not returned
    \* ---- media browser
    _mediaList,          \* QList of TyphoonMediaItem: <<[fileName, selected], ...>>
    _browseVideos,
    _selectedCount,
    photoDir,            \* the files of savePath/Photo
    videoDir,            \* the files of savePath/Video
    \* ---- update dialog
    _updateShown,
    settingsUpdateCheck, \* kUpdateCheck: the days since the stored date, -1 when unset
    dialogsShown,        \* the calls of shouldWeShowUpdate that returned true
    \* ---- controller switches and buttons
    _obsState,
    powerTimerActive,    \* _powerTimer (single shot, 1 s) is running
    nullAccess,          \* a callback has dereferenced _pHandler while it was NULL
    powerPressed,        \* the POWER button state last reported is PRESSED
    \* ---- telemetry log rotation of init
    logDir,              \* the log files of telemetrySavePath
    logs,                \* the QFileInfoList init works on
    totalLogSize,
    logPc,               \* the position of init in the rotation
    logsRemoved,         \* the log files init has removed
    \* ---- flight time
    flightTimerActive,   \* _flightTimer (periodic, 500 ms) is running
    \* ---- observation
    op,                  \* the handler that ran last, with its arguments
    emitted,             \* signals it emitted, in order
    calls                \* platform / handler calls it made, in order

wifiVars == <<_ssidList, _scanEnabled, _scanningWiFi, _bindingWiFi, _ssid, _password,
              _passwordSet, _configurations, settingsWifi, scanTimerActive, scanShots,
              bindShots, timeoutShots, bindReq, pwdSetSinceBind>>
runVars == <<_firstRun, settingsFirstRun, settingsSecondRun, restartShots>>
vehicleVars == <<_vehicle, _vehicleInReadyState>>
updVars == <<_pFileCopy, _updateError, _updateDone, workers, uiQueue>>
fcVars == <<srcFile, dstFile, fcPc, fcOutOpen, fcPos, fcTotal, fcCurrent, fcSignals>>
impVars == <<_copyingFiles, _copyingDone, _copyMessage, _exporter, exportersRunning,
             importShots, impStack>>
mediaVars == <<_mediaList, _browseVideos, _selectedCount, photoDir, videoDir>>
showVars == <<_updateShown, settingsUpdateCheck, dialogsShown>>
ctlVars == <<_obsState, powerTimerActive, nullAccess, powerPressed>>
logVars == <<logDir, logs, totalLogSize, logPc, logsRemoved>>
flightVars == <<flightTimerActive>>
miscVars == <<mediaVars, showVars, ctlVars, logVars, flightVars>>
restVars == <<updVars, fcVars, impVars, _updateProgress, miscVars>>
obsVars == <<op, emitted, calls>>

vars == <<wifiVars, runVars, vehicleVars, _pHandler, restVars, obsVars>>

\* ----------------------------------------------------------------- helpers
\* The signals of TyphoonHFileCopy: copyProgress(int), copyError(QString), copyDone().
CopyProgress(pct) == [name |-> "copyProgress", pct |-> pct, msg |-> ""]
CopyError(msg) == [name |-> "copyError", pct |-> 0, msg |-> msg]
CopyDone == [name |-> "copyDone", pct |-> 0, msg |-> ""]

\* A message string of the export / import, with the number its %1 stands for.
Message(text, arg) == [text |-> text, arg |-> arg]

\* A file on disk, and no file at that path.
File(bytes) == [exists |-> TRUE, bytes |-> bytes]
NoFile == [exists |-> FALSE, bytes |-> <<>>]

EmptyMap == [k \in {} |-> ""]

\* QMap::operator[]= : insert or overwrite.
MapSet(m, k, v) == [x \in (DOMAIN m) \cup {k} |-> IF x = k THEN v ELSE m[x]]

\* QMap::remove that removes nothing.
MapRemoveNothing(m, k) == m

\* QMap::remove.
MapRemove(m, k) == [x \in (DOMAIN m) \ {k} |-> m[x]]

\* QString::startsWith for the four camera prefixes, over the SSIDs of the model.
HasTyphoonPrefix(ssid) == ssid \in TyphoonSSIDs

\* compareRSSI: strictly greater signal strength sorts first.
compareRSSI(v1, v2) == v1.rssi > v2.rssi

\* s is ordered by compareRSSI: no element sorts strictly before an earlier one.
SortedBy(s) == \A i, j \in 1..Len(s) : i < j => ~compareRSSI(s[j], s[i])

\* The sequences std::sort may leave: a permutation of s, ordered by the comparator
\* (std::sort is not stable: equal elements may land in any order).
SeqPermutations(s) ==
    {t \in [1..Len(s) -> {s[i] : i \in 1..Len(s)}] :
        \A i \in 1..Len(s) :
            Cardinality({j \in 1..Len(s) : t[j] = s[i]}) =
            Cardinality({j \in 1..Len(s) : s[j] = s[i]})}

StdSort(s) == {t \in SeqPermutations(s) : SortedBy(t)}

\* _loadWifiConfigurations: every child key of the group, with its value as a string.
LoadWifiConfigurations(group) == [k \in DOMAIN group |-> group[k]]

\* _saveWifiConfigurations without settings.remove(""): the keys already in the
\* group stay.
SaveWithoutClearing(conf) ==
    [k \in ((DOMAIN conf) \cup (DOMAIN settingsWifi)) \ {""} |->
        IF k \in DOMAIN conf THEN conf[k] ELSE settingsWifi[k]]

\* _saveWifiConfigurations: the group is emptied, then every entry whose key is not
\* empty is written.
SaveWifiConfigurations(conf) == [k \in (DOMAIN conf) \ {""} |-> conf[k]]

\* --------------------------------------------------------------- WiFi scan
\* The delay startScan() takes when it is called without an argument is set by its
\* declaration (TyphoonHQuickInterface.h): zero (scan now) or not (scan by timer).
DefaultScanDelays == {0, 1000}

\* startScan that does not enable scanning.
startScanNotEnabled(delay, e, c) ==
    /\ _ssidList' = <<>>
    /\ _scanEnabled' = _scanEnabled
    /\ IF delay # 0
          THEN /\ scanShots < MaxShots
               /\ scanShots' = scanShots + 1
               /\ _scanningWiFi' = _scanningWiFi
               /\ emitted' = e \o <<"ssidListChanged">>
               /\ calls' = c
          ELSE /\ scanShots' = scanShots
               /\ _scanningWiFi' = TRUE
               /\ emitted' = e \o <<"ssidListChanged", "scanningWiFiChanged">>
               /\ calls' = c \o <<"startWifiScan">>

\* The body of startScan(delay), run after a handler that already emitted e and
\* made the calls c: _clearSSids, _scanEnabled, ssidListChanged, then _scanWifi now
\* (delay = 0) or by a single-shot timer.
startScanFrom(delay, e, c) ==
    /\ _ssidList' = <<>>
    /\ _scanEnabled' = TRUE
    /\ IF delay # 0
          THEN /\ scanShots < MaxShots
               /\ scanShots' = scanShots + 1
               /\ _scanningWiFi' = _scanningWiFi
               /\ emitted' = e \o <<"ssidListChanged">>
               /\ calls' = c
          ELSE /\ scanShots' = scanShots
               /\ _scanningWiFi' = TRUE
               /\ emitted' = e \o <<"ssidListChanged", "scanningWiFiChanged">>
               /\ calls' = c \o <<"startWifiScan">>

startScan(delay) ==
    /\ op' = <<"startScan">>
    /\ startScanFrom(delay, <<>>, <<>>)
    /\ UNCHANGED <<_bindingWiFi, _ssid, _password, _passwordSet, _configurations,
                   settingsWifi, scanTimerActive, bindShots, timeoutShots, bindReq,
                   pwdSetSinceBind>>
    /\ UNCHANGED <<runVars, vehicleVars, _pHandler, restVars>>

stopScan ==
    /\ op' = <<"stopScan">>
    /\ scanTimerActive' = FALSE
    /\ _scanEnabled' = FALSE
    /\ _scanningWiFi' = FALSE
    /\ emitted' = <<"scanningWiFiChanged">>
    /\ calls' = <<>>
    /\ UNCHANGED <<_ssidList, _bindingWiFi, _ssid, _password, _passwordSet,
                   _configurations, settingsWifi, scanShots, bindShots, timeoutShots,
                   bindReq, pwdSetSinceBind>>
    /\ UNCHANGED <<runVars, vehicleVars, _pHandler, restVars>>

\* _scanWifi as a timer callback: of _scanTimer (member = TRUE) or of a single shot
\* started by startScan(delay).
_scanWifi(member) ==
    /\ IF member
          THEN scanTimerActive /\ scanTimerActive' = FALSE /\ scanShots' = scanShots
          ELSE scanShots > 0 /\ scanShots' = scanShots - 1
                             /\ scanTimerActive' = scanTimerActive
    /\ op' = <<"_scanWifi">>
    /\ _scanningWiFi' = TRUE
    /\ emitted' = <<"scanningWiFiChanged">>
    /\ calls' = <<"startWifiScan">>
    /\ UNCHANGED <<_ssidList, _scanEnabled, _bindingWiFi, _ssid, _password,
                   _passwordSet, _configurations, settingsWifi, bindShots,
                   timeoutShots, bindReq, pwdSetSinceBind>>
    /\ UNCHANGED <<runVars, vehicleVars, _pHandler, restVars>>

\* _findSsid that finds no entry.
_findSsidNever(ssid) == 0

\* _findSsid: the index of the first entry with this SSID, 0 when there is none.
_findSsid(ssid) ==
    IF \E i \in 1..Len(_ssidList) : _ssidList[i].ssid = ssid
       THEN CHOOSE i \in 1..Len(_ssidList) :
                /\ _ssidList[i].ssid = ssid
                /\ \A j \in 1..(i - 1) : _ssidList[j].ssid # ssid
       ELSE 0

_newSSID(ssid, rssi) ==
    /\ op' = <<"_newSSID">>
    /\ calls' = <<>>
    /\ IF ~HasTyphoonPrefix(ssid)
          THEN /\ _ssidList' = _ssidList
               /\ emitted' = <<>>
          ELSE IF _findSsid(ssid) # 0
                  THEN \* _findSsid has set the RSSI of the entry it found
                       /\ _ssidList' = [_ssidList EXCEPT ![_findSsid(ssid)].rssi = rssi]
                       /\ emitted' = <<>>
                  ELSE /\ _ssidList' \in
                              StdSort(Append(_ssidList, [ssid |-> ssid, rssi |-> rssi]))
                       /\ emitted' = <<"ssidListChanged">>
    /\ UNCHANGED <<_scanEnabled, _scanningWiFi, _bindingWiFi, _ssid, _password,
                   _passwordSet, _configurations, settingsWifi, scanTimerActive,
                   scanShots, bindShots, timeoutShots, bindReq, pwdSetSinceBind>>
    /\ UNCHANGED <<runVars, vehicleVars, _pHandler, restVars>>

\* _scanComplete that does not start _scanTimer.
_scanCompleteNoTimer ==
    /\ op' = <<"_scanComplete">>
    /\ scanTimerActive' = scanTimerActive
    /\ _scanningWiFi' = FALSE
    /\ emitted' = <<"scanningWiFiChanged">>
    /\ calls' = <<>>
    /\ UNCHANGED <<_ssidList, _scanEnabled, _bindingWiFi, _ssid, _password,
                   _passwordSet, _configurations, settingsWifi, scanShots, bindShots,
                   timeoutShots, bindReq, pwdSetSinceBind>>
    /\ UNCHANGED <<runVars, vehicleVars, _pHandler, restVars>>

_scanComplete ==
    /\ op' = <<"_scanComplete">>
    /\ scanTimerActive' = (IF _scanEnabled THEN TRUE ELSE scanTimerActive)
    /\ _scanningWiFi' = FALSE
    /\ emitted' = <<"scanningWiFiChanged">>
    /\ calls' = <<>>
    /\ UNCHANGED <<_ssidList, _scanEnabled, _bindingWiFi, _ssid, _password,
                   _passwordSet, _configurations, settingsWifi, scanShots, bindShots,
                   timeoutShots, bindReq, pwdSetSinceBind>>
    /\ UNCHANGED <<runVars, vehicleVars, _pHandler, restVars>>

\* stopScan, _clearSSids, resetBind on the handler, resetWifi on the platform, then
\* startScan(1000).
resetWifi ==
    /\ op' = <<"resetWifi">>
    /\ scanShots < MaxShots
    /\ scanTimerActive' = FALSE
    /\ _scanningWiFi' = FALSE
    /\ _ssidList' = <<>>
    /\ _scanEnabled' = TRUE
    /\ scanShots' = scanShots + 1
    /\ emitted' = <<"scanningWiFiChanged", "ssidListChanged", "connectedSSIDChanged",
                    "ssidListChanged">>
    /\ calls' = (IF _pHandler THEN <<"resetBind">> ELSE <<>>) \o <<"resetWifi">>
    /\ bindReq' = NoBind
    /\ pwdSetSinceBind' = <<>>
    /\ UNCHANGED <<_bindingWiFi, _ssid, _password, _passwordSet, _configurations,
                   settingsWifi, bindShots, timeoutShots>>
    /\ UNCHANGED <<runVars, vehicleVars, _pHandler, restVars>>

\* --------------------------------------------------------------- WiFi bind
\* bindWIFI that never looks the password up.
BindPasswordGiven(ssid, password) == password

\* The password bindWIFI keeps: the one given, or the stored one when none is given.
BindPassword(ssid, password) ==
    IF password = "" /\ ssid \in DOMAIN _configurations
       THEN _configurations[ssid]
       ELSE password

\* bindWIFI without _clearSSids.
bindWIFIKeepsList(ssid, password) ==
    /\ op' = <<"bindWIFI", ssid, password>>
    /\ bindShots < MaxShots
    /\ scanTimerActive' = FALSE
    /\ _scanEnabled' = FALSE
    /\ _scanningWiFi' = FALSE
    /\ _ssidList' = _ssidList
    /\ _bindingWiFi' = TRUE
    /\ _ssid' = ssid
    /\ _password' = BindPassword(ssid, password)
    /\ _passwordSet' = (IF password = "" THEN _passwordSet ELSE TRUE)
    /\ bindShots' = bindShots + 1
    /\ emitted' = <<"scanningWiFiChanged", "ssidListChanged", "bindingWiFiChanged">>
    /\ calls' = <<"disconnectWifi">>
    /\ bindReq' = NoBind
    /\ pwdSetSinceBind' = <<>>
    /\ UNCHANGED <<_configurations, settingsWifi, scanShots, timeoutShots>>
    /\ UNCHANGED <<runVars, vehicleVars, _pHandler, restVars>>

\* stopScan, _clearSSids, then the bind is started: WiFi is disconnected now and
\* _delayedBind runs 5 s later.
bindWIFI(ssid, password) ==
    /\ op' = <<"bindWIFI", ssid, password>>
    /\ bindShots < MaxShots
    /\ scanTimerActive' = FALSE
    /\ _scanEnabled' = FALSE
    /\ _scanningWiFi' = FALSE
    /\ _ssidList' = <<>>
    /\ _bindingWiFi' = TRUE
    /\ _ssid' = ssid
    /\ _password' = BindPassword(ssid, password)
    /\ _passwordSet' = (IF password = "" THEN _passwordSet ELSE TRUE)
    /\ bindShots' = bindShots + 1
    /\ emitted' = <<"scanningWiFiChanged", "ssidListChanged", "bindingWiFiChanged">>
    /\ calls' = <<"disconnectWifi">>
    /\ bindReq' = NoBind
    /\ pwdSetSinceBind' = <<>>
    /\ UNCHANGED <<_configurations, settingsWifi, scanShots, timeoutShots>>
    /\ UNCHANGED <<runVars, vehicleVars, _pHandler, restVars>>

\* The 5 s single shot of bindWIFI: bindSSID(_ssid, _password) on the platform, and
\* the 15 s timeout is started.
_delayedBind ==
    /\ op' = <<"_delayedBind">>
    /\ bindShots > 0
    /\ timeoutShots < MaxShots
    /\ bindShots' = bindShots - 1
    /\ timeoutShots' = timeoutShots + 1
    /\ bindReq' = [ssid |-> _ssid, pwd |-> _password, state |-> "pending"]
    /\ pwdSetSinceBind' = <<>>
    /\ emitted' = <<>>
    /\ calls' = <<"bindSSID">>
    /\ UNCHANGED <<_ssidList, _scanEnabled, _scanningWiFi, _bindingWiFi, _ssid,
                   _password, _passwordSet, _configurations, settingsWifi,
                   scanTimerActive, scanShots>>
    /\ UNCHANGED <<runVars, vehicleVars, _pHandler, restVars>>

\* _bindTimeout without the test of _bindingWiFi.
_bindTimeoutUnguarded ==
    /\ op' = <<"_bindTimeout">>
    /\ timeoutShots > 0
    /\ timeoutShots' = timeoutShots - 1
    /\ _bindingWiFi' = FALSE
    /\ \E delay \in DefaultScanDelays :
           startScanFrom(delay, <<"bindingWiFiChanged", "bindTimeout">>, <<>>)
    /\ UNCHANGED <<_ssid, _password, _passwordSet, _configurations, settingsWifi,
                   scanTimerActive, bindShots, bindReq, pwdSetSinceBind>>
    /\ UNCHANGED <<runVars, vehicleVars, _pHandler, restVars>>

\* The 15 s single shot of _delayedBind.
_bindTimeout ==
    /\ op' = <<"_bindTimeout">>
    /\ timeoutShots > 0
    /\ timeoutShots' = timeoutShots - 1
    /\ IF _bindingWiFi
          THEN /\ _bindingWiFi' = FALSE
               /\ \E delay \in DefaultScanDelays :
                      startScanFrom(delay, <<"bindingWiFiChanged", "bindTimeout">>, <<>>)
          ELSE /\ emitted' = <<>>
               /\ calls' = <<>>
               /\ UNCHANGED <<_bindingWiFi, _ssidList, _scanEnabled, _scanningWiFi,
                              scanShots>>
    /\ UNCHANGED <<_ssid, _password, _passwordSet, _configurations, settingsWifi,
                   scanTimerActive, bindShots, bindReq, pwdSetSinceBind>>
    /\ UNCHANGED <<runVars, vehicleVars, _pHandler, restVars>>

\* The platform answers: a pending request is answered; a report that belongs to no
\* pending request leaves no request behind.
Answered(state) ==
    IF bindReq.state = "pending" THEN [bindReq EXCEPT !.state = state] ELSE NoBind

\* The platform reports that authentication failed.
_authenticationError ==
    /\ op' = <<"_authenticationError">>
    /\ _configurations' = (IF _ssid \in DOMAIN _configurations
                              THEN MapRemove(_configurations, _ssid)
                              ELSE _configurations)
    /\ settingsWifi' = (IF _ssid \in DOMAIN _configurations
                           THEN SaveWifiConfigurations(_configurations')
                           ELSE settingsWifi)
    /\ _bindingWiFi' = FALSE
    /\ \E delay \in DefaultScanDelays :
           startScanFrom(delay,
                         <<"bindingWiFiChanged", "connectedSSIDChanged",
                           "authenticationError">>,
                         IF _ssid \in DOMAIN _configurations
                            THEN <<"saveWifiConfigurations">> ELSE <<>>)
    /\ bindReq' = Answered("failed")
    /\ pwdSetSinceBind' = pwdSetSinceBind
    /\ UNCHANGED <<_ssid, _password, _passwordSet, scanTimerActive, bindShots,
                   timeoutShots>>
    /\ UNCHANGED <<runVars, vehicleVars, _pHandler, restVars>>

\* The platform reports that WiFi is connected.
_wifiConnected ==
    /\ op' = <<"_wifiConnected">>
    /\ _configurations' = MapSet(_configurations, _ssid, _password)
    /\ settingsWifi' = SaveWifiConfigurations(_configurations')
    /\ _bindingWiFi' = FALSE
    /\ emitted' = <<"isDefaultPwdChanged", "bindingWiFiChanged", "connectedSSIDChanged",
                    "wifiConnectedChanged">>
    /\ calls' = <<"saveWifiConfigurations">>
    /\ bindReq' = Answered("connected")
    /\ pwdSetSinceBind' = pwdSetSinceBind
    /\ UNCHANGED <<_ssidList, _scanEnabled, _scanningWiFi, _ssid, _password,
                   _passwordSet, scanTimerActive, scanShots, bindShots, timeoutShots>>
    /\ UNCHANGED <<runVars, vehicleVars, _pHandler, restVars>>

\* _resetFirstRun(skipSecond): the value kSecondRun is left with.
ResetSecondRun(skipSecond) == IF skipSecond THEN settingsSecondRun ELSE TRUE

\* setWiFiPassword without the test of _vehicle.
setWiFiPasswordUnbound(pwd, restart) ==
    /\ op' = <<"setWiFiPassword", pwd, restart>>
    /\ _password' = pwd
    /\ _configurations' = MapSet(_configurations, _ssid, pwd)
    /\ settingsWifi' = SaveWifiConfigurations(_configurations')
    /\ _firstRun' = FALSE
    /\ settingsFirstRun' = FALSE
    /\ settingsSecondRun' = ResetSecondRun(FALSE)
    /\ IF restart
          THEN restartShots < MaxShots /\ restartShots' = restartShots + 1
          ELSE restartShots' = restartShots
    /\ pwdSetSinceBind' = (IF bindReq.state = "pending" THEN <<pwd>> ELSE pwdSetSinceBind)
    /\ emitted' = <<"firstRunChanged">>
    /\ calls' = <<"saveWifiConfigurations", "setWifiPassword">>
    /\ UNCHANGED <<_ssidList, _scanEnabled, _scanningWiFi, _bindingWiFi, _ssid,
                   _passwordSet, scanTimerActive, scanShots, bindShots, timeoutShots,
                   bindReq>>
    /\ UNCHANGED <<vehicleVars, _pHandler, restVars>>

setWiFiPassword(pwd, restart) ==
    /\ op' = <<"setWiFiPassword", pwd, restart>>
    /\ IF _vehicle # NULL
          THEN /\ _password' = pwd
               /\ _configurations' = MapSet(_configurations, _ssid, pwd)
               /\ settingsWifi' = SaveWifiConfigurations(_configurations')
               /\ _firstRun' = FALSE
               /\ settingsFirstRun' = FALSE
               /\ settingsSecondRun' = ResetSecondRun(FALSE)
               /\ IF restart
                     THEN restartShots < MaxShots /\ restartShots' = restartShots + 1
                     ELSE restartShots' = restartShots
               /\ pwdSetSinceBind' = (IF bindReq.state = "pending"
                                         THEN <<pwd>> ELSE pwdSetSinceBind)
               /\ emitted' = <<"firstRunChanged">>
               /\ calls' = <<"saveWifiConfigurations", "setWifiPassword">>
          ELSE /\ emitted' = <<>>
               /\ calls' = <<>>
               /\ UNCHANGED <<_password, _configurations, settingsWifi, runVars,
                              pwdSetSinceBind>>
    /\ UNCHANGED <<_ssidList, _scanEnabled, _scanningWiFi, _bindingWiFi, _ssid,
                   _passwordSet, scanTimerActive, scanShots, bindShots, timeoutShots,
                   bindReq>>
    /\ UNCHANGED <<vehicleVars, _pHandler, restVars>>

\* The 500 ms single shot of setWiFiPassword(pwd, true): the application is restarted.
_restart ==
    /\ op' = <<"_restart">>
    /\ restartShots > 0
    /\ restartShots' = restartShots - 1
    /\ emitted' = <<>>
    /\ calls' = <<"restartApp">>
    /\ UNCHANGED <<_firstRun, settingsFirstRun, settingsSecondRun>>
    /\ UNCHANGED <<wifiVars, vehicleVars, _pHandler, restVars>>

\* ----------------------------------------------------------------- vehicle
_vehicleAdded(vehicle) ==
    /\ op' = <<"_vehicleAdded", vehicle>>
    /\ _vehicle' = (IF _vehicle = NULL THEN vehicle ELSE _vehicle)
    /\ IF ~_passwordSet
          THEN /\ _firstRun' = FALSE
               /\ settingsFirstRun' = FALSE
               /\ settingsSecondRun' = ResetSecondRun(TRUE)
               /\ emitted' = <<"firstRunChanged">>
          ELSE /\ emitted' = <<>>
               /\ UNCHANGED <<_firstRun, settingsFirstRun, settingsSecondRun>>
    /\ calls' = <<>>
    /\ UNCHANGED <<_vehicleInReadyState, restartShots>>
    /\ UNCHANGED <<wifiVars, _pHandler, restVars>>

\* _vehicleRemoved without the test of the vehicle that was removed.
_vehicleRemovedAny(vehicle) ==
    /\ op' = <<"_vehicleRemoved", vehicle>>
    /\ _vehicle' = NULL
    /\ _vehicleInReadyState' = FALSE
    /\ emitted' = <<>>
    /\ calls' = <<>>
    /\ UNCHANGED <<wifiVars, runVars, _pHandler, restVars>>

_vehicleRemoved(vehicle) ==
    /\ op' = <<"_vehicleRemoved", vehicle>>
    /\ IF _vehicle = vehicle
          THEN _vehicle' = NULL /\ _vehicleInReadyState' = FALSE
          ELSE UNCHANGED vehicleVars
    /\ emitted' = <<>>
    /\ calls' = <<>>
    /\ UNCHANGED <<wifiVars, runVars, _pHandler, restVars>>

_vehicleReady(ready) ==
    /\ op' = <<"_vehicleReady", ready>>
    /\ _vehicleInReadyState' = ready
    /\ emitted' = (IF _vehicle # NULL /\ ready THEN <<"ledFactChanged">> ELSE <<>>)
    /\ calls' = <<>>
    /\ UNCHANGED <<_vehicle, wifiVars, runVars, _pHandler, restVars>>

\* ------------------------------------------- TyphoonHFileCopy::startCopy
\* The handlers of the interface leave a run of startCopy alone, and the run leaves
\* the interface alone: it executes on the worker thread.
notCopy == <<wifiVars, runVars, vehicleVars, _pHandler, updVars, impVars,
             _updateProgress, miscVars, obsVars>>

\* The percentage of what is still to be copied.
CopyPercentRemaining(current, total) == ((total - current) * 100) \div total

\* (int)((double)current / (double)total * 100.0)
CopyPercent(current, total) == (current * 100) \div total

SubSeqFrom(s, pos, count) == [i \in 1..count |-> s[pos + i]]

\* startCopy that opens the destination without truncating it.
startCopyOpenAppending(inOpens, outOpens) ==
    /\ fcPc = "idle"
    /\ fcTotal' = Len(srcFile)
    /\ fcCurrent' = 0
    /\ fcPos' = 0
    /\ IF ~inOpens \/ ~outOpens
          THEN /\ fcSignals' = Append(fcSignals,
                                  CopyError("Error opening firmware update file."))
               /\ fcPc' = "returned"
               /\ UNCHANGED <<dstFile, fcOutOpen>>
          ELSE /\ dstFile' = File(dstFile.bytes)
               /\ fcOutOpen' = TRUE
               /\ fcPc' = "loop"
               /\ UNCHANGED fcSignals
    /\ UNCHANGED <<srcFile, notCopy>>

\* Entry of startCopy to the first test of the loop: the size is taken and both
\* files are opened.  inOpens, outOpens: whether QFile::open succeeds.
startCopyOpen(inOpens, outOpens) ==
    /\ fcPc = "idle"
    /\ fcTotal' = Len(srcFile)
    /\ fcCurrent' = 0
    /\ fcPos' = 0
    /\ IF ~inOpens
          THEN /\ fcSignals' = Append(fcSignals,
                                  CopyError("Error opening firmware update file."))
               /\ fcPc' = "returned"
               /\ UNCHANGED <<dstFile, fcOutOpen>>
          ELSE IF ~outOpens
                  THEN /\ fcSignals' = Append(fcSignals,
                                  CopyError("Error opening firmware destination file."))
                       /\ fcPc' = "returned"
                       /\ UNCHANGED <<dstFile, fcOutOpen>>
                  ELSE \* QIODevice::WriteOnly creates or truncates the file
                       /\ dstFile' = File(<<>>)
                       /\ fcOutOpen' = TRUE
                       /\ fcPc' = "loop"
                       /\ UNCHANGED fcSignals
    /\ UNCHANGED <<srcFile, notCopy>>

\* The loop body without outFile.remove() on its error paths.
startCopyChunkNoRemove(count, written) ==
    /\ fcPc = "loop"
    /\ fcPos < Len(srcFile)
    /\ count <= ChunkLen
    /\ count <= Len(srcFile) - fcPos
    /\ IF count < 0 \/ (count # 0 /\ written # count)
          THEN /\ fcSignals' = Append(fcSignals, CopyError("Error reading firmware file."))
               /\ fcPc' = "returned"
               /\ UNCHANGED <<dstFile, fcPos, fcCurrent>>
          ELSE /\ dstFile' = File(dstFile.bytes \o SubSeqFrom(srcFile, fcPos, count))
               /\ fcPos' = fcPos + count
               /\ fcCurrent' = fcCurrent + count
               /\ fcSignals' = Append(fcSignals,
                      CopyProgress(CopyPercent(fcCurrent + count, fcTotal)))
               /\ UNCHANGED fcPc
    /\ UNCHANGED <<srcFile, fcTotal, fcOutOpen, notCopy>>

\* One pass of the loop body.  count: what inFile.read returns (-1 on error, else
\* the bytes read, at most a chunk); written: what outFile.write returns.
startCopyChunk(count, written) ==
    /\ fcPc = "loop"
    /\ fcPos < Len(srcFile)
    /\ count <= ChunkLen
    /\ count <= Len(srcFile) - fcPos
    /\ IF count < 0
          THEN /\ fcSignals' = Append(fcSignals, CopyError("Error reading firmware file."))
               /\ dstFile' = NoFile
               /\ fcPc' = "returned"
               /\ UNCHANGED <<fcPos, fcCurrent>>
          ELSE IF count # 0 /\ written # count
                  THEN /\ fcSignals' = Append(fcSignals, CopyError("Error writing firmware file."))
                       /\ dstFile' = NoFile
                       /\ fcPc' = "returned"
                       /\ fcPos' = fcPos + count
                       /\ UNCHANGED fcCurrent
                  ELSE /\ dstFile' = File(dstFile.bytes \o SubSeqFrom(srcFile, fcPos, count))
                       /\ fcPos' = fcPos + count
                       /\ fcCurrent' = fcCurrent + count
                       /\ fcSignals' = Append(fcSignals,
                              CopyProgress(CopyPercent(fcCurrent + count, fcTotal)))
                       /\ UNCHANGED fcPc
    /\ UNCHANGED <<srcFile, fcTotal, fcOutOpen, notCopy>>

\* inFile.atEnd(): both files are closed and copyDone is emitted.
startCopyDone ==
    /\ fcPc = "loop"
    /\ fcPos >= Len(srcFile)
    /\ fcSignals' = Append(fcSignals, CopyDone)
    /\ fcPc' = "returned"
    /\ UNCHANGED <<srcFile, dstFile, fcOutOpen, fcPos, fcTotal, fcCurrent, notCopy>>

\* ------------------------------------------------------- firmware update
WorkerIds == 1..MaxWorkers

\* TyphoonHFileCopy objects that exist: created and not yet deleted.
LiveWorkers == {w \in WorkerIds : workers[w] \in {"scheduled", "copying", "finished"}}

notUpdate == <<wifiVars, runVars, vehicleVars, _pHandler, fcVars, impVars, miscVars>>

\* _endCopyThread: the thread of _pFileCopy is told to quit and is waited for, and
\* the pointer is cleared.  A thread whose startCopy has not begun leaves its event
\* loop at once; one that is inside startCopy leaves it when startCopy returns, after
\* the signal startCopy ends with (sig) was queued.  QThread::finished deletes the
\* worker.  Yields the workers and the queue afterwards.
EndCopyWorkers ==
    IF _pFileCopy = NoWorker THEN workers ELSE [workers EXCEPT ![_pFileCopy] = "deleted"]

EndCopyQueue(q, sig) ==
    IF _pFileCopy # NoWorker /\ workers[_pFileCopy] = "copying"
       THEN Append(q, [w |-> _pFileCopy, sig |-> sig])
       ELSE q

EndCopyEmits == IF _pFileCopy = NoWorker THEN <<>> ELSE <<"updatingChanged">>

\* What startCopy may emit: progress, and the signal it ends with.
TerminalSignals == {CopyDone, CopyError("Error reading firmware file.")}
ProgressSignals == {CopyProgress(50), CopyProgress(100)}

\* updateSystemImage that creates the copy worker without checkForUpdate().
updateSystemImageUnchecked(exists, sig) ==
    /\ op' = <<"updateSystemImage", exists>>
    /\ _updateDone' = FALSE
    /\ \E w \in WorkerIds :
           /\ workers[w] = "none"
           /\ \A v \in WorkerIds : v < w => workers[v] # "none"
           /\ workers' = [workers EXCEPT ![w] = "scheduled"]
           /\ _pFileCopy' = w
    /\ _updateError' = ""
    /\ _updateProgress' = 0
    /\ emitted' = <<"updateErrorChanged", "updateProgressChanged", "updatingChanged">>
    /\ calls' = <<>>
    /\ UNCHANGED uiQueue
    /\ UNCHANGED notUpdate

updateSystemImage(exists, sig) ==
    /\ op' = <<"updateSystemImage", exists>>
    /\ _updateDone' = FALSE
    /\ IF exists
          THEN /\ \E w \in WorkerIds :
                     /\ workers[w] = "none"
                     /\ \A v \in WorkerIds : v < w => workers[v] # "none"
                     /\ workers' = [workers EXCEPT ![w] = "scheduled"]
                     /\ _pFileCopy' = w
               /\ _updateError' = ""
               /\ _updateProgress' = 0
               /\ emitted' = <<"updateErrorChanged", "updateProgressChanged",
                               "updatingChanged">>
               /\ UNCHANGED uiQueue
          ELSE \* _imageUpdateError
               /\ _updateError' = "Could not locate update file."
               /\ _updateProgress' = 0
               /\ Len(EndCopyQueue(uiQueue, sig)) <= MaxQueue
               /\ workers' = EndCopyWorkers
               /\ uiQueue' = EndCopyQueue(uiQueue, sig)
               /\ _pFileCopy' = NoWorker
               /\ emitted' = <<"updateErrorChanged", "updateProgressChanged",
                               "updateErrorChanged">> \o EndCopyEmits
    /\ calls' = <<>>
    /\ UNCHANGED notUpdate

\* The 100 ms single shot that runs startCopy on the worker thread.
workerStart(w) ==
    /\ workers[w] = "scheduled"
    /\ workers' = [workers EXCEPT ![w] = "copying"]
    /\ UNCHANGED <<_pFileCopy, _updateError, _updateDone, _updateProgress, uiQueue>>
    /\ UNCHANGED <<notUpdate, obsVars>>

\* startCopy on the worker thread emits a signal; the connection to the interface is
\* queued.  copyDone and copyError end startCopy.
workerEmit(w, sig) ==
    /\ workers[w] = "copying"
    /\ Len(uiQueue) < MaxQueue
    /\ uiQueue' = Append(uiQueue, [w |-> w, sig |-> sig])
    /\ workers' = [workers EXCEPT ![w] = IF sig \in TerminalSignals
                                            THEN "finished" ELSE "copying"]
    /\ UNCHANGED <<_pFileCopy, _updateError, _updateDone, _updateProgress>>
    /\ UNCHANGED <<notUpdate, obsVars>>

_imageUpdateProgress ==
    /\ uiQueue # <<>>
    /\ Head(uiQueue).sig.name = "copyProgress"
    /\ op' = <<"_imageUpdateProgress", Head(uiQueue).sig.pct>>
    /\ uiQueue' = Tail(uiQueue)
    /\ _updateProgress' = Head(uiQueue).sig.pct
    /\ emitted' = <<"updateProgressChanged">>
    /\ calls' = <<>>
    /\ UNCHANGED <<_pFileCopy, _updateError, _updateDone, workers>>
    /\ UNCHANGED notUpdate

_imageUpdateError(sig) ==
    /\ uiQueue # <<>>
    /\ Head(uiQueue).sig.name = "copyError"
    /\ op' = <<"_imageUpdateError">>
    /\ _updateError' = Head(uiQueue).sig.msg
    /\ Len(EndCopyQueue(Tail(uiQueue), sig)) <= MaxQueue
    /\ workers' = EndCopyWorkers
    /\ uiQueue' = EndCopyQueue(Tail(uiQueue), sig)
    /\ _pFileCopy' = NoWorker
    /\ emitted' = <<"updateErrorChanged">> \o EndCopyEmits
    /\ calls' = <<>>
    /\ UNCHANGED <<_updateDone, _updateProgress>>
    /\ UNCHANGED notUpdate

_imageUpdateDone(sig) ==
    /\ uiQueue # <<>>
    /\ Head(uiQueue).sig.name = "copyDone"
    /\ op' = <<"_imageUpdateDone">>
    /\ Len(EndCopyQueue(Tail(uiQueue), sig)) <= MaxQueue
    /\ workers' = EndCopyWorkers
    /\ uiQueue' = EndCopyQueue(Tail(uiQueue), sig)
    /\ _pFileCopy' = NoWorker
    /\ emitted' = EndCopyEmits
    /\ calls' = <<"updateImage">>
    /\ UNCHANGED <<_updateError, _updateDone, _updateProgress>>
    /\ UNCHANGED notUpdate

\* --------------------------------------------------------- export / import
notImport == <<wifiVars, runVars, vehicleVars, _pHandler, updVars, fcVars, miscVars>>

\* _copyProgress: (int)((float)curCount / (float)totalCount * 100.0f), 0 for no total.
CopyProgressValue(totalCount, curCount) ==
    IF totalCount = 0 THEN 0 ELSE (curCount * 100) \div totalCount

\* Texts YExportFiles::message may carry.
ExportMessages == {Message("Exporting", 0), Message("Export done", 0)}

initExport ==
    /\ op' = <<"initExport">>
    /\ _copyingFiles' = FALSE
    /\ _updateProgress' = 0
    /\ _copyingDone' = FALSE
    /\ _copyMessage' = Message("", 0)
    /\ emitted' = <<"updateProgressChanged", "copyingFilesChanged", "copyMessageChanged",
                    "copyingDoneChanged">>
    /\ calls' = <<>>
    /\ UNCHANGED <<_exporter, exportersRunning, importShots, impStack, notImport>>

exportData(exportUTM, exportSkyward) ==
    /\ op' = <<"exportData">>
    /\ exportersRunning < MaxExporters
    /\ _copyingFiles' = TRUE
    /\ _updateProgress' = 0
    /\ _copyMessage' = Message("Copying files...", 0)
    /\ _exporter' = TRUE
    /\ exportersRunning' = exportersRunning + 1
    /\ emitted' = <<"updateProgressChanged", "copyingFilesChanged", "copyMessageChanged",
                    "copyMessageChanged">>
    /\ calls' = <<"YExportFiles::exportData">>
    /\ UNCHANGED <<_copyingDone, importShots, impStack, notImport>>

cancelExportData ==
    /\ op' = <<"cancelExportData">>
    /\ IF _exporter
          THEN /\ _copyMessage' = Message("Canceling...", 0)
               /\ emitted' = <<"copyMessageChanged">>
               /\ calls' = <<"YExportFiles::cancel">>
          ELSE /\ emitted' = <<>>
               /\ calls' = <<>>
               /\ UNCHANGED _copyMessage
    /\ UNCHANGED <<_copyingFiles, _copyingDone, _exporter, exportersRunning,
                   importShots, impStack, _updateProgress, notImport>>

\* YExportFiles::completed of a running exporter.
_exportCompleted ==
    /\ op' = <<"_exportCompleted">>
    /\ exportersRunning > 0
    /\ exportersRunning' = exportersRunning - 1
    /\ _exporter' = FALSE
    /\ _copyingFiles' = FALSE
    /\ _copyingDone' = TRUE
    /\ emitted' = <<"copyingFilesChanged", "copyingDoneChanged">>
    /\ calls' = IF _exporter THEN <<"deleteLater">> ELSE <<>>
    /\ UNCHANGED <<_copyMessage, importShots, impStack, _updateProgress, notImport>>

\* YExportFiles::progress of a running exporter.
_copyProgress(totalCount, curCount) ==
    /\ op' = <<"_copyProgress">>
    /\ exportersRunning > 0
    /\ _updateProgress' = CopyProgressValue(totalCount, curCount)
    /\ emitted' = <<"updateProgressChanged">>
    /\ calls' = <<>>
    /\ UNCHANGED <<impVars, notImport>>

\* YExportFiles::message of a running exporter.
_exportMessage(message) ==
    /\ op' = <<"_exportMessage">>
    /\ exportersRunning > 0
    /\ _copyMessage' = message
    /\ emitted' = <<"copyMessageChanged">>
    /\ calls' = <<>>
    /\ UNCHANGED <<_copyingFiles, _copyingDone, _exporter, exportersRunning,
                   importShots, impStack, _updateProgress, notImport>>

importMission ==
    /\ op' = <<"importMission">>
    /\ importShots < MaxShots
    /\ _copyingFiles' = TRUE
    /\ importShots' = importShots + 1
    /\ emitted' = <<"copyingFilesChanged">>
    /\ calls' = <<>>
    /\ UNCHANGED <<_copyingDone, _copyMessage, _exporter, exportersRunning, impStack,
                   _updateProgress, notImport>>

SourcePathMissing ==
    Message("Source path missing. Make sure you have a (FAT32 Formatted) microSD card loaded.", 0)

\* The end of _importMissions after a failed QFile::copy, and after the last file.
ImportError(file) == Message("Error importing %1", file)
ImportDone(totalFiles) == Message("%1 files imported", totalFiles)

\* The 10 ms single shot of importMission: _importMissions from its entry to its first
\* qApp->processEvents(), or to its return.  pathExists: destDir.exists(); totalFiles:
\* the *.plan files found; copies: whether QFile::copy of the first file succeeds.
_importMissions(pathExists, totalFiles, copies) ==
    /\ op' = <<"_importMissions", pathExists>>
    /\ importShots > 0
    /\ importShots' = importShots - 1
    /\ calls' = <<>>
    /\ IF ~pathExists
          THEN /\ _copyMessage' = SourcePathMissing
               /\ emitted' = <<"copyMessageChanged">>
               /\ UNCHANGED <<_copyingFiles, _copyingDone, impStack, _updateProgress>>
          ELSE IF totalFiles = 0
                  THEN /\ _copyMessage' = ImportDone(0)
                       /\ _updateProgress' = CopyProgressValue(0, 0)
                       /\ _copyingFiles' = FALSE
                       /\ _copyingDone' = TRUE
                       /\ emitted' = <<"copyMessageChanged", "updateProgressChanged",
                                       "copyMessageChanged", "copyingFilesChanged",
                                       "copyingDoneChanged">>
                       /\ UNCHANGED impStack
                  ELSE IF ~copies
                          THEN /\ _copyMessage' = ImportError(1)
                               /\ _updateProgress' = CopyProgressValue(totalFiles, 0)
                               /\ _copyingFiles' = FALSE
                               /\ _copyingDone' = TRUE
                               /\ emitted' = <<"copyMessageChanged", "updateProgressChanged",
                                               "copyMessageChanged", "copyingFilesChanged",
                                               "copyingDoneChanged">>
                               /\ UNCHANGED impStack
                          ELSE /\ Len(impStack) < MaxDepth
                               /\ _copyMessage' = Message("Importing mission files...", 0)
                               /\ _updateProgress' = CopyProgressValue(totalFiles, 1)
                               /\ impStack' = Append(impStack,
                                                 [totalFiles |-> totalFiles, curCount |-> 1])
                               /\ emitted' = <<"copyMessageChanged", "updateProgressChanged",
                                               "updateProgressChanged">>
                               /\ UNCHANGED <<_copyingFiles, _copyingDone>>
    /\ UNCHANGED <<_exporter, exportersRunning, notImport>>

\* The resumed _importMissions that goes on with the next file after a failed copy.
importResumeSkipsFailed(copies) ==
    /\ impStack # <<>>
    /\ LET top == impStack[Len(impStack)]
           rest == SubSeq(impStack, 1, Len(impStack) - 1)
       IN  /\ op' = <<"_importMissions resumed">>
           /\ calls' = <<>>
           /\ IF top.curCount = top.totalFiles
                 THEN /\ _copyMessage' = ImportDone(top.totalFiles)
                      /\ _copyingFiles' = FALSE
                      /\ _copyingDone' = TRUE
                      /\ impStack' = rest
                      /\ emitted' = <<"copyMessageChanged", "copyingFilesChanged",
                                      "copyingDoneChanged">>
                      /\ UNCHANGED _updateProgress
                 ELSE /\ _copyMessage' = (IF copies THEN _copyMessage
                                                    ELSE ImportError(top.curCount + 1))
                      /\ _updateProgress' =
                             CopyProgressValue(top.totalFiles, top.curCount + 1)
                      /\ impStack' = Append(rest,
                             [top EXCEPT !.curCount = top.curCount + 1])
                      /\ emitted' = <<"updateProgressChanged">>
                      /\ UNCHANGED <<_copyingFiles, _copyingDone>>
    /\ UNCHANGED <<_exporter, exportersRunning, importShots, notImport>>

\* qApp->processEvents() returns in the innermost _importMissions, which runs on to its
\* next processEvents or to its return.  copies: whether the next QFile::copy succeeds.
importResume(copies) ==
    /\ impStack # <<>>
    /\ LET top == impStack[Len(impStack)]
           rest == SubSeq(impStack, 1, Len(impStack) - 1)
       IN  /\ op' = <<"_importMissions resumed">>
           /\ calls' = <<>>
           /\ IF top.curCount = top.totalFiles
                 THEN /\ _copyMessage' = ImportDone(top.totalFiles)
                      /\ _copyingFiles' = FALSE
                      /\ _copyingDone' = TRUE
                      /\ impStack' = rest
                      /\ emitted' = <<"copyMessageChanged", "copyingFilesChanged",
                                      "copyingDoneChanged">>
                      /\ UNCHANGED _updateProgress
                 ELSE IF ~copies
                         THEN /\ _copyMessage' = ImportError(top.curCount + 1)
                              /\ _copyingFiles' = FALSE
                              /\ _copyingDone' = TRUE
                              /\ impStack' = rest
                              /\ emitted' = <<"copyMessageChanged", "copyingFilesChanged",
                                              "copyingDoneChanged">>
                              /\ UNCHANGED _updateProgress
                         ELSE /\ _updateProgress' =
                                     CopyProgressValue(top.totalFiles, top.curCount + 1)
                              /\ impStack' = Append(rest,
                                     [top EXCEPT !.curCount = top.curCount + 1])
                              /\ emitted' = <<"updateProgressChanged">>
                              /\ UNCHANGED <<_copyingFiles, _copyingDone, _copyMessage>>
    /\ UNCHANGED <<_exporter, exportersRunning, importShots, notImport>>

\* ----------------------------------------------------------- media browser
notMedia == <<wifiVars, runVars, vehicleVars, _pHandler, updVars, fcVars, impVars,
              _updateProgress, showVars, ctlVars, logVars, flightVars>>

\* A file name: the capture time stamp it starts with and its extension.
FileName(stamp, ext) == [stamp |-> stamp, ext |-> ext]

\* YUNEEC_VIDEO_EXTENSION
VideoExt == ".video"

\* The name filters of refreshMeadiaList for the browse mode.
NameFilters(video) == IF video THEN {VideoExt} ELSE {".jpg", ".JPG"}

\* a->fileName() > b->fileName() for names whose stamps have the same number of
\* digits: by stamp, then by extension ('J' sorts before 'j').
FileNameGreater(a, b) ==
    \/ a.stamp > b.stamp
    \/ a.stamp = b.stamp /\ a.ext = ".jpg" /\ b.ext = ".JPG"

\* A new TyphoonMediaItem: not selected.
MediaItem(fileName) == [fileName |-> fileName, selected |-> FALSE]

\* photoDir.entryList(): the matching files of the directory, each once, in the
\* order the directory yields them.
EntryLists(dir, video) ==
    LET matching == {f \in dir : f.ext \in NameFilters(video)}
    IN  {e \in [1..Cardinality(matching) -> matching] :
            \A i, j \in 1..Cardinality(matching) : e[i] = e[j] => i = j}

\* std::sort of the media list with the file name comparator.
MediaSort(s) ==
    {t \in SeqPermutations(s) :
        \A i, j \in 1..Len(t) : i < j => ~FileNameGreater(t[j].fileName, t[i].fileName)}

\* refreshMeadiaList that appends to the list it finds.
RefreshedListsKeeping(dir, video) ==
    UNION {MediaSort(_mediaList \o [i \in 1..Len(e) |-> MediaItem(e[i])]) :
               e \in EntryLists(dir, video)}

\* The lists refreshMeadiaList may leave for a directory.
RefreshedLists(dir, video) ==
    UNION {MediaSort([i \in 1..Len(e) |-> MediaItem(e[i])]) : e \in EntryLists(dir, video)}

BrowsedDir(video, photos, videos) == IF video THEN videos ELSE photos

\* n times the signals s
Repeated(s, n) == [i \in 1..(n * Len(s)) |-> s[((i - 1) % Len(s)) + 1]]

\* The camera (or anything else) saves a file in one of the two directories.
fileSaved(video, f) ==
    /\ op' = <<"fileSaved">>
    /\ IF video
          THEN f \notin videoDir /\ videoDir' = videoDir \cup {f} /\ UNCHANGED photoDir
          ELSE f \notin photoDir /\ photoDir' = photoDir \cup {f} /\ UNCHANGED videoDir
    /\ emitted' = <<>>
    /\ calls' = <<>>
    /\ UNCHANGED <<_mediaList, _browseVideos, _selectedCount, notMedia>>

clearMediaItems ==
    /\ op' = <<"clearMediaItems">>
    /\ _mediaList' = <<>>
    /\ emitted' = <<>>
    /\ calls' = <<>>
    /\ UNCHANGED <<_browseVideos, _selectedCount, photoDir, videoDir, notMedia>>

refreshMeadiaList ==
    /\ op' = <<"refreshMeadiaList">>
    /\ _selectedCount' = 0
    /\ _mediaList' \in RefreshedLists(BrowsedDir(_browseVideos, photoDir, videoDir),
                                      _browseVideos)
    /\ emitted' = <<"selectedCountChanged", "mediaListChanged">>
    /\ calls' = <<>>
    /\ UNCHANGED <<_browseVideos, photoDir, videoDir, notMedia>>

setBrowseVideos(video) ==
    /\ op' = <<"setBrowseVideos", video>>
    /\ _browseVideos' = video
    /\ _selectedCount' = 0
    /\ _mediaList' \in RefreshedLists(BrowsedDir(video, photoDir, videoDir), video)
    /\ emitted' = <<"browseVideosChanged", "selectedCountChanged", "mediaListChanged">>
    /\ calls' = <<>>
    /\ UNCHANGED <<photoDir, videoDir, notMedia>>

\* TyphoonMediaItem::setSelected(sel) on item i of the list.
setSelected(i, sel) ==
    /\ op' = <<"setSelected">>
    /\ i \in 1..Len(_mediaList)
    /\ _mediaList' = [_mediaList EXCEPT ![i].selected = sel]
    /\ IF _mediaList[i].selected # sel
          THEN /\ _selectedCount' = (IF sel THEN _selectedCount + 1 ELSE _selectedCount - 1)
               /\ emitted' = <<"selectedChanged", "selectedCountChanged">>
          ELSE /\ UNCHANGED _selectedCount
               /\ emitted' = <<>>
    /\ calls' = <<>>
    /\ UNCHANGED <<_browseVideos, photoDir, videoDir, notMedia>>

selectAllMedia(selected) ==
    /\ op' = <<"selectAllMedia">>
    /\ LET changed == {i \in 1..Len(_mediaList) : _mediaList[i].selected # selected}
       IN  /\ _mediaList' = [i \in 1..Len(_mediaList) |->
                                [_mediaList[i] EXCEPT !.selected = selected]]
           /\ _selectedCount' = (IF selected THEN _selectedCount + Cardinality(changed)
                                             ELSE _selectedCount - Cardinality(changed))
           /\ emitted' = Repeated(<<"selectedChanged", "selectedCountChanged">>,
                                  Cardinality(changed))
    /\ calls' = <<>>
    /\ UNCHANGED <<_browseVideos, photoDir, videoDir, notMedia>>

\* The selected items are unselected and their files removed from the directory of
\* the browse mode, then the list is refreshed.  kept: the files QFile::remove
\* fails to remove.
deleteSelectedMedia(kept) ==
    /\ op' = <<"deleteSelectedMedia">>
    /\ LET toDelete == {_mediaList[i].fileName :
                            i \in {j \in 1..Len(_mediaList) : _mediaList[j].selected}}
           photos == IF _browseVideos THEN photoDir ELSE photoDir \ (toDelete \ kept)
           videos == IF _browseVideos THEN videoDir \ (toDelete \ kept) ELSE videoDir
           count == Cardinality({j \in 1..Len(_mediaList) : _mediaList[j].selected})
       IN  /\ kept \subseteq toDelete
           /\ photoDir' = photos
           /\ videoDir' = videos
           /\ _mediaList' \in RefreshedLists(BrowsedDir(_browseVideos, photos, videos),
                                             _browseVideos)
           /\ emitted' = Repeated(<<"selectedChanged", "selectedCountChanged">>, count)
                         \o <<"selectedCountChanged", "mediaListChanged">>
    /\ _selectedCount' = 0
    /\ calls' = <<>>
    /\ UNCHANGED <<_browseVideos, notMedia>>

\* ----------------------------------------------------------- update dialog
notShow == <<wifiVars, vehicleVars, _pHandler, updVars, fcVars, impVars,
             _updateProgress, mediaVars, ctlVars, logVars, flightVars>>

\* a | b of two non-negative integers
RECURSIVE BitOr(_, _)
BitOr(a, b) ==
    IF a = 0 THEN b
    ELSE IF b = 0 THEN a
    ELSE 2 * BitOr(a \div 2, b \div 2) + (IF a % 2 = 1 \/ b % 2 = 1 THEN 1 ELSE 0)

\* major << 16 | minor << 8 | patch; for the versions drawn here the word stays
\* far below 2^31, so no bit is lost in the uint32_t.
PackedVersion(major, minor, patch) ==
    BitOr(BitOr(major * 65536, minor * 256), patch)

\* FIRMWARE_FORCE_UPDATE_MAJOR, _MINOR, _PATCH
ForceUpdateVersion == PackedVersion(1, 1, 0)

\* The days from lastCheck to now; an unset kUpdateCheck reads as today.
DaysSinceCheck == IF settingsUpdateCheck < 0 THEN 0 ELSE settingsUpdateCheck

\* lastCheck.year() != now.year(), for a date more than a year old
YearDiffers == DaysSinceCheck >= 365

\* The date-based part of shouldWeShowUpdate: whether it forces the dialog.
DateForces(internet) ==
    IF settingsSecondRun THEN YearDiffers
    ELSE ~internet /\ DaysSinceCheck > 29

\* Whether the date-based part stores today's date under kUpdateCheck.
DateResets(internet) ==
    IF settingsSecondRun THEN YearDiffers
    ELSE internet \/ DaysSinceCheck > 29

\* The firmware check without the test for a development firmware (fmver == 0).
FirmwareForcesZero(hasVehicle, major, minor, patch) ==
    /\ hasVehicle
    /\ ForceUpdateVersion >= PackedVersion(major, minor, patch)

\* The firmware check: v is the active vehicle, if any, with its custom version.
FirmwareForces(hasVehicle, major, minor, patch) ==
    /\ hasVehicle
    /\ PackedVersion(major, minor, patch) # 0
    /\ ForceUpdateVersion >= PackedVersion(major, minor, patch)

\* The warnings shouldWeShowUpdate logs with qWarning, in order.
UpdateWarnings(internet, hasVehicle, major, minor, patch) ==
    IF DateForces(internet)
       THEN IF settingsSecondRun
               THEN <<"First run after settings done. Force update dialog">>
               ELSE <<"Too long since last Internet connection. Force update dialog">>
       ELSE IF ~hasVehicle
               THEN <<"Vehicle not available when checking version.">>
               ELSE IF FirmwareForces(hasVehicle, major, minor, patch)
                       THEN <<"Firmware version is shipping version. Force update dialog">>
                       ELSE <<>>

\* shouldWeShowUpdate that ignores _updateShown.
shouldWeShowUpdateAgain(internet, hasVehicle, major, minor, patch) ==
    /\ IF _firstRun
          THEN /\ op' = <<"shouldWeShowUpdate", FALSE>>
               /\ UNCHANGED <<_updateShown, settingsUpdateCheck, dialogsShown,
                              settingsSecondRun>>
          ELSE LET res == DateForces(internet)
                          \/ FirmwareForces(hasVehicle, major, minor, patch)
               IN  /\ op' = <<"shouldWeShowUpdate", res>>
                   /\ settingsSecondRun' = FALSE
                   /\ settingsUpdateCheck' = (IF DateResets(internet) \/ res
                                                 THEN 0 ELSE settingsUpdateCheck)
                   /\ _updateShown' = res
                   /\ dialogsShown' = (IF res THEN dialogsShown + 1 ELSE dialogsShown)
    /\ emitted' = <<>>
    /\ calls' = (IF _firstRun THEN <<>>
                 ELSE UpdateWarnings(internet, hasVehicle, major, minor, patch))
    /\ UNCHANGED <<_firstRun, settingsFirstRun, restartShots, notShow>>

\* internet: getQGCMapEngine()->isInternetActive(); hasVehicle: whether there is an
\* active vehicle; major, minor, patch: its custom firmware version.
shouldWeShowUpdate(internet, hasVehicle, major, minor, patch) ==
    /\ IF _firstRun \/ _updateShown
          THEN /\ op' = <<"shouldWeShowUpdate", FALSE>>
               /\ UNCHANGED <<_updateShown, settingsUpdateCheck, dialogsShown,
                              settingsSecondRun>>
          ELSE LET res == DateForces(internet)
                          \/ FirmwareForces(hasVehicle, major, minor, patch)
               IN  /\ op' = <<"shouldWeShowUpdate", res>>
                   /\ settingsSecondRun' = FALSE
                   /\ settingsUpdateCheck' = (IF DateResets(internet) \/ res
                                                 THEN 0 ELSE settingsUpdateCheck)
                   /\ _updateShown' = res
                   /\ dialogsShown' = (IF res THEN dialogsShown + 1 ELSE dialogsShown)
    /\ emitted' = <<>>
    /\ calls' = (IF _firstRun \/ _updateShown THEN <<>>
                 ELSE UpdateWarnings(internet, hasVehicle, major, minor, patch))
    /\ UNCHANGED <<_firstRun, settingsFirstRun, restartShots, notShow>>

\* Days go by: the date stored under kUpdateCheck is now days old.
daysPass(days) ==
    /\ op' = <<"daysPass">>
    /\ settingsUpdateCheck >= 0
    /\ days > settingsUpdateCheck
    /\ settingsUpdateCheck' = days
    /\ emitted' = <<>>
    /\ calls' = <<>>
    /\ UNCHANGED <<_updateShown, dialogsShown, runVars, notShow>>

\* ------------------------------------------- controller switches and buttons
notCtl == <<wifiVars, runVars, updVars, fcVars, impVars, _updateProgress, mediaVars,
            showVars, logVars, flightVars>>

_switchStateChanged(switchId, switchState) ==
    /\ op' = <<"_switchStateChanged", switchId, switchState>>
    /\ IF switchId = "OBSTACLE_AVOIDANCE"
          THEN IF switchState = "ON" /\ ~_obsState
                  THEN _obsState' = TRUE /\ emitted' = <<"obsStateChanged">>
                  ELSE IF _obsState
                          THEN _obsState' = FALSE /\ emitted' = <<"obsStateChanged">>
                          ELSE UNCHANGED _obsState /\ emitted' = <<>>
          ELSE UNCHANGED _obsState /\ emitted' = <<>>
    /\ calls' = <<>>
    /\ UNCHANGED <<powerTimerActive, nullAccess, powerPressed, vehicleVars, _pHandler,
                   notCtl>>

\* _buttonStateChanged that leaves _powerTimer running when POWER is released.
_buttonStateChangedNoStop(buttonId, buttonState) ==
    /\ op' = <<"_buttonStateChanged", buttonId, buttonState>>
    /\ powerTimerActive' = (IF buttonId = "POWER" /\ buttonState = "PRESSED"
                               THEN TRUE ELSE powerTimerActive)
    /\ powerPressed' = (IF buttonId = "POWER"
                           THEN buttonState = "PRESSED" ELSE powerPressed)
    /\ emitted' = <<>>
    /\ calls' = <<>>
    /\ UNCHANGED <<_obsState, nullAccess, vehicleVars, _pHandler, notCtl>>

_buttonStateChanged(buttonId, buttonState) ==
    /\ op' = <<"_buttonStateChanged", buttonId, buttonState>>
    /\ powerTimerActive' = (IF buttonId = "POWER"
                               THEN buttonState = "PRESSED" ELSE powerTimerActive)
    /\ powerPressed' = (IF buttonId = "POWER"
                           THEN buttonState = "PRESSED" ELSE powerPressed)
    /\ emitted' = <<>>
    /\ calls' = <<>>
    /\ UNCHANGED <<_obsState, nullAccess, vehicleVars, _pHandler, notCtl>>

\* The timeout of _powerTimer.  rcActive: what _pHandler->rcActive() yields; with
\* _pHandler NULL the call is made through a null pointer, and whatever it yields
\* the access has happened.
_powerTrigger(rcActive) ==
    /\ powerTimerActive
    /\ powerTimerActive' = FALSE
    /\ op' = <<"_powerTrigger", rcActive>>
    /\ nullAccess' = (nullAccess \/ ~_pHandler)
    /\ emitted' = (IF ~rcActive /\ _vehicle # NULL /\ _vehicleInReadyState
                      THEN <<"powerHeld">> ELSE <<>>)
    /\ calls' = <<"rcActive">>
    /\ UNCHANGED <<_obsState, powerPressed, vehicleVars, _pHandler, notCtl>>

\* TyphoonHM4Interface::destroyed
_destroyed ==
    /\ op' = <<"_destroyed">>
    /\ _pHandler
    /\ _pHandler' = FALSE
    /\ emitted' = <<>>
    /\ calls' = <<>>
    /\ UNCHANGED <<ctlVars, vehicleVars, notCtl>>

\* ------------------------------------------------- telemetry log rotation
notLogs == <<wifiVars, runVars, vehicleVars, _pHandler, updVars, fcVars, impVars,
             _updateProgress, mediaVars, showVars, ctlVars, flightVars, obsVars>>

\* Sizes are counted in units of 256 MiB; the limit of init, 1024 * 1024 * 1024
\* bytes, is four of them.
LogSizeUnit == 268435456
LogLimit == (1024 * 1024 * 1024) \div LogSizeUnit

LogNames == 1..MaxLogs
LogTimes == 1..3
LogSizes == {1, 3, 5}

\* A log file: its name, QFileInfo::created() and QFileInfo::size().
LogFile(name, created, size) == [name |-> name, created |-> created, size |-> size]

created_greater_than(f1, f2) == f1.created > f2.created

\* QDir::entryInfoList: the files of the directory, by name.
RECURSIVE EntryInfoList(_)
EntryInfoList(dir) ==
    IF dir = {} THEN <<>>
    ELSE LET f == CHOOSE x \in dir : \A y \in dir : x.name <= y.name
         IN  <<f>> \o EntryInfoList(dir \ {f})

\* What std::sort with created_greater_than may leave.
SortedLogs(s) ==
    {t \in SeqPermutations(s) :
        \A i, j \in 1..Len(t) : i < j => ~created_greater_than(t[j], t[i])}

RECURSIVE SumOfSizes(_)
SumOfSizes(s) == IF s = <<>> THEN 0 ELSE Head(s).size + SumOfSizes(Tail(s))

\* The total size of the files of a directory.
DirSize(dir) == SumOfSizes(EntryInfoList(dir))

\* A log file recorded by an earlier run of the application.
logWritten(name, created, size) ==
    /\ logPc = "start"
    /\ \A f \in logDir : f.name # name
    /\ logDir' = logDir \cup {LogFile(name, created, size)}
    /\ UNCHANGED <<logs, totalLogSize, logPc, logsRemoved, notLogs>>

\* init: the logs are listed and sorted and, when there is more than one, their
\* sizes are added up.
initListLogs ==
    /\ logPc = "start"
    /\ logs' \in SortedLogs(EntryInfoList(logDir))
    /\ IF Len(logs') > 1
          THEN totalLogSize' = SumOfSizes(logs') /\ logPc' = "loop"
          ELSE totalLogSize' = 0 /\ logPc' = "done"
    /\ UNCHANGED <<logDir, logsRemoved, notLogs>>

\* An iteration of the loop that removes only the list entry.
initRemoveLogFromList ==
    /\ logPc = "loop"
    /\ totalLogSize > LogLimit /\ Len(logs) # 0
    /\ totalLogSize' = totalLogSize - logs[1].size
    /\ logs' = Tail(logs)
    /\ UNCHANGED <<logDir, logsRemoved, logPc, notLogs>>

\* An iteration of the loop: logs[0] is removed from the disk and from the list.
initRemoveLog ==
    /\ logPc = "loop"
    /\ totalLogSize > LogLimit /\ Len(logs) # 0
    /\ totalLogSize' = totalLogSize - logs[1].size
    /\ logDir' = logDir \ {logs[1]}
    /\ logsRemoved' = logsRemoved \cup {logs[1]}
    /\ logs' = Tail(logs)
    /\ UNCHANGED <<logPc, notLogs>>

\* The loop condition is false.
initLogsDone ==
    /\ logPc = "loop"
    /\ ~(totalLogSize > LogLimit /\ Len(logs) # 0)
    /\ logPc' = "done"
    /\ UNCHANGED <<logDir, logs, totalLogSize, logsRemoved, notLogs>>

\* ------------------------------------------------------------ flight time
notFlight == <<wifiVars, runVars, vehicleVars, _pHandler, updVars, fcVars, impVars,
               _updateProgress, mediaVars, showVars, ctlVars, logVars>>

\* Vehicle::armedChanged of the bound vehicle: the signal is connected by
\* _vehicleAdded and disconnected by _vehicleRemoved.
_armedChanged(armed) ==
    /\ _vehicle # NULL
    /\ op' = <<"_armedChanged", armed>>
    /\ flightTimerActive' = armed
    /\ emitted' = <<>>
    /\ calls' = (IF armed THEN <<"_flightTime.start">> ELSE <<>>)
    /\ UNCHANGED notFlight

\* A timeout of _flightTimer, which is not a single shot.
_flightUpdate ==
    /\ flightTimerActive
    /\ op' = <<"_flightUpdate">>
    /\ emitted' = <<"flightTimeChanged">>
    /\ calls' = <<>>
    /\ UNCHANGED <<flightTimerActive, notFlight>>

\* ------------------------------------------------------------ construction
\* Byte sequences of at most n bytes.
ByteSeqs(n) == UNION {[1..k -> Bytes] : k \in 0..n}

\* The kWifiConfig groups an earlier session may have left: no key is empty.
StoredGroups(ssids, pwds) ==
    UNION {[d -> pwds] : d \in SUBSET (ssids \ {""})}

\* The state the constructor and init() leave.  connected: what connectedSSID() may
\* return; groups: what QSettings may hold under kWifiConfig; firstRuns: under
\* kFirstRun; sources, dests: the update file and what is at its destination.
Constructed(connected, groups, firstRuns, sources, dests) ==
    /\ _ssidList = <<>>
    /\ _scanEnabled = FALSE
    /\ _scanningWiFi = FALSE
    /\ _bindingWiFi = FALSE
    /\ _ssid \in connected
    /\ _password = ""
    /\ _passwordSet = FALSE
    /\ settingsWifi \in groups
    /\ _configurations = LoadWifiConfigurations(settingsWifi)
    /\ settingsFirstRun \in firstRuns
    /\ _firstRun = settingsFirstRun
    /\ settingsSecondRun = TRUE
    /\ _vehicle = NULL
    /\ _vehicleInReadyState = FALSE
    /\ _pHandler = TRUE
    /\ scanTimerActive = FALSE
    /\ scanShots = 0
    /\ bindShots = 0
    /\ timeoutShots = 0
    /\ restartShots = 0
    /\ bindReq = NoBind
    /\ pwdSetSinceBind = <<>>
    /\ _pFileCopy = NoWorker
    /\ _updateError = ""
    /\ _updateDone = FALSE
    /\ _updateProgress = 0
    /\ workers = [w \in WorkerIds |-> "none"]
    /\ uiQueue = <<>>
    /\ srcFile \in sources
    /\ dstFile \in dests
    /\ fcPc = "idle"
    /\ fcOutOpen = FALSE
    /\ fcPos = 0
    /\ fcTotal = 0
    /\ fcCurrent = 0
    /\ fcSignals = <<>>
    /\ _copyingFiles = FALSE
    /\ _copyingDone = FALSE
    /\ _copyMessage = Message("", 0)
    /\ _exporter = FALSE
    /\ exportersRunning = 0
    /\ importShots = 0
    /\ impStack = <<>>
    /\ _mediaList = <<>>
    /\ _browseVideos = FALSE
    /\ _selectedCount = 0
    /\ photoDir = {}
    /\ videoDir = {}
    /\ _updateShown = FALSE
    /\ settingsUpdateCheck = -1
    /\ dialogsShown = 0
    /\ _obsState = FALSE
    /\ powerTimerActive = FALSE
    /\ nullAccess = FALSE
    /\ powerPressed = FALSE
    /\ logDir = {}
    /\ logs = <<>>
    /\ totalLogSize = 0
    /\ logPc = "start"
    /\ logsRemoved = {}
    /\ flightTimerActive = FALSE
    /\ op = <<"init">>
    /\ emitted = <<>>
    /\ calls = <<>>

\* ---------------------------------------------------------- specifications
\* WiFi scanning and the network list, with binds of one stored network.
Init ==
    Constructed({"CGOET_1"}, StoredGroups({"CGOET_1"}, {"secret"}), {TRUE},
                {<<>>}, {NoFile})

Next ==
    \/ \E delay \in {0, 1000} : startScan(delay)
    \/ stopScan
    \/ \E member \in BOOLEAN : _scanWifi(member)
    \/ \E ssid \in TyphoonSSIDs \cup OtherSSIDs, rssi \in RSSIs : _newSSID(ssid, rssi)
    \/ _scanComplete
    \/ resetWifi
    \/ bindWIFI("CGOET_1", "")
    \/ _delayedBind
    \/ _bindTimeout
    \/ _authenticationError
    \/ _wifiConnected

Spec == Init /\ [][Next]_vars

\* The same, with fair timer delivery: a timer that is due to run _scanWifi (the
\* _scanTimer of _scanComplete, or a single shot of startScan) does fire unless it is
\* stopped first.
FairScanTimers == WF_vars(\E member \in BOOLEAN : _scanWifi(member))

\* The scan cycle with everything that starts or stops scanning; one network is
\* reported.
NextScan ==
    \/ \E delay \in {0, 1000} : startScan(delay)
    \/ stopScan
    \/ \E member \in BOOLEAN : _scanWifi(member)
    \/ _newSSID("CGOET_1", -50)
    \/ _scanComplete
    \/ resetWifi
    \/ bindWIFI("CGOET_1", "")
    \/ _delayedBind
    \/ _bindTimeout

SpecScanFair == Init /\ [][NextScan]_vars /\ FairScanTimers

\* Binding and the credential map, with one network in the list.
BindSSIDs == {"", "CGOET_1"}
BindPasswords == {"", "secret"}
SetPasswords == {"1234567890"}

InitBind ==
    Constructed(BindSSIDs, StoredGroups(BindSSIDs, {"secret"}), {TRUE},
                {<<>>}, {NoFile})

NextBind ==
    \/ \E ssid \in BindSSIDs, password \in BindPasswords : bindWIFI(ssid, password)
    \/ _delayedBind
    \/ _bindTimeout
    \/ _authenticationError
    \/ _wifiConnected
    \/ \E pwd \in SetPasswords : setWiFiPassword(pwd, FALSE)
    \/ _scanWifi(FALSE)
    \/ _vehicleAdded("v1")
    \/ _vehicleRemoved("v1")

SpecBind == InitBind /\ [][NextBind]_vars

\* One run of TyphoonHFileCopy::startCopy on the worker thread.
\* What may be at the destination before the run.
OldDests == {NoFile, File(<<1, 1>>)}

\* What inFile.read may return before the end of the file: -1, or the bytes read.
ReadResults == {-1} \cup 1..ChunkLen

InitCopy ==
    Constructed({"CGOET_1"}, {EmptyMap}, {TRUE}, ByteSeqs(MaxFileLen), OldDests)

NextCopy ==
    \/ \E inOpens, outOpens \in BOOLEAN : startCopyOpen(inOpens, outOpens)
    \/ \E count \in ReadResults, written \in -1..ChunkLen : startCopyChunk(count, written)
    \/ startCopyDone

SpecCopy == InitCopy /\ [][NextCopy]_vars

\* The vehicle manager's reports, with explicit password sets.
Vehicles == {"v1", "v2"}
NewPasswords == {"1234567890", "newpass"}

InitVehicle ==
    Constructed({"", "CGOET_1"}, StoredGroups({"CGOET_1"}, {"secret"}), BOOLEAN,
                {<<>>}, {NoFile})

NextVehicle ==
    \/ \E vehicle \in Vehicles : _vehicleAdded(vehicle)
    \/ \E vehicle \in Vehicles : _vehicleRemoved(vehicle)
    \/ \E ready \in BOOLEAN : _vehicleReady(ready)
    \/ \E pwd \in NewPasswords, restart \in BOOLEAN : setWiFiPassword(pwd, restart)
    \/ _restart

SpecVehicle == InitVehicle /\ [][NextVehicle]_vars

\* The media browser, with files that appear in the two directories.
PhotoDirFiles == {FileName(1, ".jpg"), FileName(2, ".JPG"), FileName(2, ".jpg"),
                  FileName(3, ".txt")}
VideoDirFiles == {FileName(1, VideoExt), FileName(2, VideoExt)}

InitMedia ==
    Constructed({"CGOET_1"}, {EmptyMap}, {TRUE}, {<<>>}, {NoFile})

NextMedia ==
    \/ \E f \in PhotoDirFiles : fileSaved(FALSE, f)
    \/ \E f \in VideoDirFiles : fileSaved(TRUE, f)
    \/ clearMediaItems
    \/ refreshMeadiaList
    \/ \E video \in BOOLEAN : setBrowseVideos(video)
    \/ \E i \in 1..Cardinality(PhotoDirFiles), sel \in BOOLEAN : setSelected(i, sel)
    \/ \E selected \in BOOLEAN : selectAllMedia(selected)
    \/ \E kept \in SUBSET (PhotoDirFiles \cup VideoDirFiles) : deleteSelectedMedia(kept)

SpecMedia == InitMedia /\ [][NextMedia]_vars

\* The update dialog, with what clears the first-run flag.
UpdateCheckAges == {30, 400}
Majors == {0, 1, 2}
Minors == {0, 1, 2, 256}
Patches == {0, 1, 255}

InitShow ==
    Constructed({"CGOET_1"}, {EmptyMap}, BOOLEAN, {<<>>}, {NoFile})

NextShow ==
    \/ \E internet, hasVehicle \in BOOLEAN, major \in Majors, minor \in Minors,
          patch \in Patches :
           shouldWeShowUpdate(internet, hasVehicle, major, minor, patch)
    \/ \E days \in UpdateCheckAges : daysPass(days)
    \/ \E vehicle \in Vehicles : _vehicleAdded(vehicle)
    \/ \E vehicle \in Vehicles : _vehicleRemoved(vehicle)
    \/ \E pwd \in NewPasswords : setWiFiPassword(pwd, FALSE)

SpecShow == InitShow /\ [][NextShow]_vars

\* The switches and buttons of the controller, its power timer and the end of
\* the handler, with the vehicle reports _powerTrigger depends on.  While the
\* handler lives it reports switches and buttons; the timer and the vehicle
\* manager go on after it.
SwitchIds == {"OBSTACLE_AVOIDANCE", "FLIGHT_MODE"}
SwitchStates == {"OFF", "CENTER", "ON"}
ButtonIds == {"POWER", "CAMERA_SHUTTER"}
ButtonStates == {"PRESSED", "RELEASED"}

InitCtl ==
    Constructed({"CGOET_1"}, {EmptyMap}, {FALSE}, {<<>>}, {NoFile})

NextCtl ==
    \/ \E switchId \in SwitchIds, switchState \in SwitchStates :
           _pHandler /\ _switchStateChanged(switchId, switchState)
    \/ \E buttonId \in ButtonIds, buttonState \in ButtonStates :
           _pHandler /\ _buttonStateChanged(buttonId, buttonState)
    \/ \E rcActive \in BOOLEAN : _powerTrigger(rcActive)
    \/ _destroyed
    \/ _vehicleAdded("v1")
    \/ _vehicleRemoved("v1")
    \/ \E ready \in BOOLEAN : _vehicleReady(ready)

SpecCtl == InitCtl /\ [][NextCtl]_vars

\* The log rotation of init over the log directories earlier runs may have left.
\* init runs to its end.
NextLogs ==
    \/ \E name \in LogNames, created \in LogTimes, size \in LogSizes :
           logWritten(name, created, size)
    \/ initListLogs
    \/ initRemoveLog
    \/ initLogsDone

SpecLogs == InitCtl /\ [][NextLogs]_vars /\ WF_vars(initRemoveLog \/ initLogsDone)

\* The flight timer, with vehicles that connect, arm, disarm and disconnect.
NextFlight ==
    \/ \E vehicle \in Vehicles : _vehicleAdded(vehicle)
    \/ \E vehicle \in Vehicles : _vehicleRemoved(vehicle)
    \/ \E ready \in BOOLEAN : _vehicleReady(ready)
    \/ \E armed \in BOOLEAN : _armedChanged(armed)
    \/ _flightUpdate

SpecFlight == InitVehicle /\ [][NextFlight]_vars

\* The firmware update: updateSystemImage, the workers and their queued signals.
InitUpdate ==
    Constructed({"CGOET_1"}, {EmptyMap}, {TRUE}, {<<>>}, {NoFile})

NextUpdate ==
    \/ \E exists \in BOOLEAN, sig \in TerminalSignals : updateSystemImage(exists, sig)
    \/ \E w \in WorkerIds : workerStart(w)
    \/ \E w \in WorkerIds, sig \in ProgressSignals \cup TerminalSignals : workerEmit(w, sig)
    \/ _imageUpdateProgress
    \/ \E sig \in TerminalSignals : _imageUpdateError(sig)
    \/ \E sig \in TerminalSignals : _imageUpdateDone(sig)

SpecUpdate == InitUpdate /\ [][NextUpdate]_vars

\* The same, with the scheduling the code relies on: the 100 ms single shot fires,
\* startCopy copies a finite file and so ends with copyDone or copyError (while it
\* runs it may find the queue of the interface busy again and again), and the event
\* loop of the interface delivers every queued signal.
FairUpdate ==
    /\ \A w \in WorkerIds : WF_vars(workerStart(w))
    /\ \A w \in WorkerIds : SF_vars(\E sig \in TerminalSignals : workerEmit(w, sig))
    /\ WF_vars(_imageUpdateProgress)
    /\ WF_vars(\E sig \in TerminalSignals : _imageUpdateError(sig))
    /\ WF_vars(\E sig \in TerminalSignals : _imageUpdateDone(sig))

SpecUpdateFair == InitUpdate /\ [][NextUpdate]_vars /\ FairUpdate

\* The export and the mission import.
InitImport ==
    Constructed({"CGOET_1"}, {EmptyMap}, {TRUE}, {<<>>}, {NoFile})

NextImport ==
    \/ initExport
    \/ \E exportUTM, exportSkyward \in BOOLEAN : exportData(exportUTM, exportSkyward)
    \/ cancelExportData
    \/ _exportCompleted
    \/ \E totalCount \in 0..MaxFiles, curCount \in 0..MaxFiles :
           curCount <= totalCount /\ _copyProgress(totalCount, curCount)
    \/ \E message \in ExportMessages : _exportMessage(message)
    \/ importMission
    \/ \E pathExists \in BOOLEAN, totalFiles \in 0..MaxFiles, copies \in BOOLEAN :
           _importMissions(pathExists, totalFiles, copies)
    \/ \E copies \in BOOLEAN : importResume(copies)

SpecImport == InitImport /\ [][NextImport]_vars

\* ------------------------------------------------------------ observation
Called(c) == \E i \in 1..Len(calls) : calls[i] = c
EmitCount(sig) == Cardinality({i \in 1..Len(emitted) : emitted[i] = sig})

\* ------------------------------------------------------------------ claims
\* C1: in every reachable state the WiFi network list is ordered by non-increasing
\* signal strength: each entry's RSSI is >= the RSSI of the entry that follows it.
C1_ListOrderedByRssi ==
    \A i \in 1..(Len(_ssidList) - 1) : _ssidList[i].rssi >= _ssidList[i + 1].rssi

\* C2, as claimed: when _wifiConnected answers a bind request, the credential map
\* afterwards maps the SSID of the request to the password the request was made
\* with, and _bindingWiFi is false.
C2_MapHoldsBindPassword ==
    (op[1] = "_wifiConnected" /\ bindReq.state = "connected") =>
        /\ bindReq.ssid \in DOMAIN _configurations
        /\ _configurations[bindReq.ssid] = bindReq.pwd
        /\ ~_bindingWiFi

\* C2, amended: bindWIFI(ssid, password) keeps ssid and the password given, or the
\* stored one when none is given; when _wifiConnected answers the bind request made
\* with them, the credential map afterwards maps the SSID of the request to the
\* password of the request, or to the password of the last setWiFiPassword made
\* while the request was pending, and _bindingWiFi is false.
C2_MapHoldsBindOrSetPassword ==
    /\ op[1] = "bindWIFI" =>
           /\ _ssid = op[2]
           /\ _password = (IF op[3] = "" /\ op[2] \in DOMAIN _configurations
                              THEN _configurations[op[2]] ELSE op[3])
           /\ _bindingWiFi
    /\ op[1] = "_delayedBind" =>
           bindReq = [ssid |-> _ssid, pwd |-> _password, state |-> "pending"]
    /\ (op[1] = "_wifiConnected" /\ bindReq.state = "connected") =>
           /\ bindReq.ssid \in DOMAIN _configurations
           /\ _configurations[bindReq.ssid] =
                  (IF pwdSetSinceBind = <<>> THEN bindReq.pwd ELSE pwdSetSinceBind[1])
           /\ ~_bindingWiFi

\* A bind with a password was answered by _wifiConnected, and the map holds it.
C2_Witness ==
    /\ op[1] = "_wifiConnected"
    /\ bindReq.state = "connected"
    /\ bindReq.pwd = "secret"
    /\ pwdSetSinceBind = <<>>
    /\ _configurations[bindReq.ssid] = "secret"

\* C3: after _authenticationError the credential map holds no entry for _ssid, and
\* the entry of every other SSID is unchanged.
C3_AuthErrorPrunesOnlySsid ==
    [][op'[1] = "_authenticationError" =>
          /\ _ssid' = _ssid
          /\ _ssid \notin DOMAIN _configurations'
          /\ DOMAIN _configurations' = (DOMAIN _configurations) \ {_ssid}
          /\ \A s \in DOMAIN _configurations' : _configurations'[s] = _configurations[s]
      ]_vars

\* An entry was pruned by _authenticationError and another entry is still there.
C3_Witness ==
    /\ op[1] = "_authenticationError"
    /\ Called("saveWifiConfigurations")
    /\ _ssid \notin DOMAIN _configurations
    /\ DOMAIN _configurations # {}

\* C4, as claimed: after every operation that mutates the credential map the
\* persisted group holds exactly the entries of the in-memory map, and
\* _loadWifiConfigurations of the persisted group yields the in-memory map.
C4_PersistedEqualsMap ==
    Called("saveWifiConfigurations") =>
        /\ settingsWifi = _configurations
        /\ LoadWifiConfigurations(settingsWifi) = _configurations

\* The entries of a map whose key is not the empty string.
NonEmptyKeys(m) == [k \in (DOMAIN m) \ {""} |-> m[k]]

\* C4, amended: after every operation that mutates the credential map the persisted
\* group holds exactly the entries of the in-memory map whose SSID is not empty, and
\* _loadWifiConfigurations of the persisted group yields those entries.
C4_PersistedEqualsNonEmptyKeys ==
    Called("saveWifiConfigurations") =>
        /\ settingsWifi = NonEmptyKeys(_configurations)
        /\ LoadWifiConfigurations(settingsWifi) = NonEmptyKeys(_configurations)

\* The map was saved with an entry for the empty SSID and one for a named SSID.
C4_Witness ==
    /\ Called("saveWifiConfigurations")
    /\ "" \in DOMAIN _configurations
    /\ "CGOET_1" \in DOMAIN _configurations
    /\ "CGOET_1" \in DOMAIN settingsWifi

\* A scan was issued by this step, or a single shot that will issue it was started.
ScanIssued ==
    \/ Called("startWifiScan")' /\ _scanningWiFi' /\ scanShots' = scanShots
    \/ scanShots' = scanShots + 1

\* C5, as claimed: at any time at most one firmware-copy worker exists, whatever the
\* sequence of updateSystemImage calls and of copyProgress / copyError / copyDone
\* notifications.
C5_AtMostOneCopyWorker == Cardinality(LiveWorkers) <= 1

\* Positions of the signals of a name among those startCopy has emitted.
SignalsNamed(name) == {i \in 1..Len(fcSignals) : fcSignals[i].name = name}

\* C6: a run of startCopy that fails (a file does not open, a read returns an error,
\* a write is short) emits copyError exactly once and as its last signal, so no
\* copyProgress follows it and copyDone is never emitted; the destination it opened
\* is removed, and a destination it did not open is left as it was.  A run that
\* has returned has emitted exactly one of copyError and copyDone.
C6_FailedCopyCleansUp ==
    /\ SignalsNamed("copyError") # {} =>
           /\ SignalsNamed("copyError") = {Len(fcSignals)}
           /\ SignalsNamed("copyDone") = {}
           /\ fcPc = "returned"
           /\ IF fcOutOpen THEN dstFile = NoFile ELSE dstFile \in OldDests
    /\ fcPc = "returned" =>
           Cardinality(SignalsNamed("copyError") \cup SignalsNamed("copyDone")) = 1
    /\ fcPc # "returned" =>
           SignalsNamed("copyError") \cup SignalsNamed("copyDone") = {}

\* A write came up short after a chunk had been copied: the error is the last
\* signal and the destination is gone.
C6_Witness ==
    /\ fcPc = "returned"
    /\ Len(fcSignals) = 2
    /\ fcSignals[1].name = "copyProgress"
    /\ fcSignals[2] = CopyError("Error writing firmware file.")
    /\ fcOutOpen
    /\ dstFile = NoFile

\* C7: without an I/O error startCopy writes the bytes of the source to the
\* destination in source order, at most one chunk in each pass of its loop: inside
\* the loop the destination holds the bytes of the source read so far, and when
\* copyDone is emitted the destination equals the source.  copyDone is emitted
\* exactly once, as the last signal (after every copyProgress), and copyError is not
\* emitted.
C7_CopyEqualsSource ==
    /\ [](/\ fcPc = "loop" => dstFile = File(SubSeq(srcFile, 1, fcPos))
          /\ SignalsNamed("copyDone") # {} =>
                 /\ dstFile = File(srcFile)
                 /\ SignalsNamed("copyDone") = {Len(fcSignals)}
                 /\ SignalsNamed("copyError") = {}
                 /\ fcPc = "returned")
    /\ [][(fcPc = "loop" /\ fcPc' = "loop") =>
              /\ Len(dstFile'.bytes) - Len(dstFile.bytes) \in 0..ChunkLen
              /\ SubSeq(dstFile'.bytes, 1, Len(dstFile.bytes)) = dstFile.bytes
         ]_vars

\* A source of the greatest length was copied over an older destination in more than
\* one chunk.
C7_Witness ==
    /\ fcPc = "returned"
    /\ Len(srcFile) = MaxFileLen
    /\ Len(fcSignals) >= 3
    /\ fcSignals[Len(fcSignals)] = CopyDone
    /\ dstFile = File(srcFile)
    /\ dstFile.bytes # <<>>

\* C8: every _authenticationError sets _bindingWiFi to false, emits
\* authenticationError once, and restarts WiFi scanning: the network list is cleared,
\* _scanEnabled becomes true and a scan is issued (at once, or by the single shot of
\* startScan).
C8_AuthErrorRestartsScan ==
    [][op'[1] = "_authenticationError" =>
          /\ ~_bindingWiFi'
          /\ EmitCount("authenticationError")' = 1
          /\ _ssidList' = <<>>
          /\ _scanEnabled'
          /\ ScanIssued
      ]_vars

\* A pending bind of a stored network failed, and scanning is on again.
C8_Witness ==
    /\ op[1] = "_authenticationError"
    /\ bindReq.state = "failed"
    /\ Called("saveWifiConfigurations")
    /\ Called("startWifiScan")
    /\ _scanEnabled /\ _scanningWiFi

\* C9: _bindTimeout acts only while a bind is in progress.  With _bindingWiFi true it
\* sets it to false, emits bindTimeout once and restarts scanning; with _bindingWiFi
\* false it changes no state, emits nothing and starts no scan.
C9_BindTimeoutOnlyWhileBinding ==
    [][op'[1] = "_bindTimeout" =>
          IF _bindingWiFi
             THEN /\ ~_bindingWiFi'
                  /\ EmitCount("bindTimeout")' = 1
                  /\ _ssidList' = <<>>
                  /\ _scanEnabled'
                  /\ ScanIssued
             ELSE /\ emitted' = <<>>
                  /\ calls' = <<>>
                  /\ UNCHANGED <<_ssidList, _scanEnabled, _scanningWiFi, _bindingWiFi,
                                 _ssid, _password, _passwordSet, _configurations,
                                 settingsWifi, scanTimerActive, scanShots, bindShots,
                                 bindReq>>
                  /\ UNCHANGED <<runVars, vehicleVars, _pHandler, restVars>>
      ]_vars

\* The timeout of a bind that had already been answered fired: nothing was emitted
\* and scanning, stopped by bindWIFI, was not started.
C9_Witness ==
    /\ op[1] = "_bindTimeout"
    /\ bindReq.state = "connected"
    /\ emitted = <<>>
    /\ ~_bindingWiFi
    /\ ~_scanEnabled

\* C10, as claimed: when the import source path is missing, the _importMissions that
\* importMission started shows the 'Source path missing' message and, when it has
\* returned, _copyingFiles is false again.
C10_MissingPathResetsCopying ==
    op = <<"_importMissions", FALSE>> =>
        /\ _copyMessage = SourcePathMissing
        /\ ~_copyingFiles

\* C11: updateSystemImage called when the update file does not exist creates no copy
\* worker, leaves _pFileCopy NULL (updating false), sets the progress to 0 and sets
\* the update error to 'Could not locate update file.'.
C11_MissingUpdateFile ==
    [][(\E sig \in TerminalSignals : updateSystemImage(FALSE, sig)) =>
          /\ _pFileCopy' = NoWorker
          /\ LiveWorkers' \subseteq LiveWorkers
          /\ \A w \in WorkerIds : workers[w] = "none" => workers'[w] = "none"
          /\ _pFileCopy = NoWorker => workers' = workers /\ uiQueue' = uiQueue
          /\ _updateProgress' = 0
          /\ _updateError' = "Could not locate update file."
          /\ ~_updateDone'
      ]_vars

\* The update was asked for with no update file and no copy ever started.
C11_Witness ==
    /\ op = <<"updateSystemImage", FALSE>>
    /\ \A w \in WorkerIds : workers[w] = "none"
    /\ _pFileCopy = NoWorker
    /\ _updateError = "Could not locate update file."

\* C12, as claimed: _importMissions is never entered while an earlier invocation of
\* _importMissions has not returned: at most one invocation is on the stack.
C12_ImportNotReentered == Len(impStack) <= 1

\* C13: one vehicle reference.  _vehicleAdded binds the reported vehicle only when
\* none is bound and otherwise leaves the bound vehicle as it is, and never changes
\* the readiness flag; _vehicleRemoved of the bound vehicle unbinds it and sets the
\* readiness flag to false; _vehicleRemoved of any other vehicle changes neither.
C13_OneVehicleBound ==
    [][/\ op'[1] = "_vehicleAdded" =>
              /\ _vehicle' = (IF _vehicle = NULL THEN op'[2] ELSE _vehicle)
              /\ UNCHANGED _vehicleInReadyState
       /\ op'[1] = "_vehicleRemoved" =>
              IF _vehicle = op'[2]
                 THEN _vehicle' = NULL /\ ~_vehicleInReadyState'
                 ELSE UNCHANGED <<_vehicle, _vehicleInReadyState>>
      ]_vars

\* Another vehicle than the bound, ready one was removed.
C13_Witness ==
    /\ op = <<"_vehicleRemoved", "v2">>
    /\ _vehicle = "v1"
    /\ _vehicleInReadyState

\* C14, as claimed, for a scan cycle in which no network is reported: when the
\* _scanComplete of a cycle directly follows the _scanWifi that started it, no
\* _newSSID came during the cycle, so the list, holding only networks reported
\* during the cycle, is empty once the cycle has finished.
C14_ListRebuiltEveryCycle ==
    [][(op[1] = "_scanWifi" /\ op'[1] = "_scanComplete") => _ssidList' = <<>>]_vars

\* The SSIDs of the entries of a network list.
ListedSSIDs(list) == {list[i].ssid : i \in 1..Len(list)}

\* C15: each call of startScan, bindWIFI or resetWifi (and the startScan made by
\* _authenticationError) leaves the network list empty, and an SSID enters the list
\* only in a _newSSID report: every entry present after such a call was added by a
\* report that came after it.
C15_ListDiscardedOnRestart ==
    [][/\ op'[1] \in {"startScan", "bindWIFI", "resetWifi", "_authenticationError"} =>
              _ssidList' = <<>>
       /\ ~(ListedSSIDs(_ssidList') \subseteq ListedSSIDs(_ssidList)) =>
              op'[1] = "_newSSID"
      ]_vars

\* bindWIFI was called and a report that came after it put an entry in the list.
C15_Witness ==
    /\ op = <<"_newSSID">>
    /\ _bindingWiFi
    /\ ~_scanEnabled
    /\ Len(_ssidList) = 1

\* C16: no two entries of the network list carry the same SSID, and a _newSSID
\* report that brings no new SSID into the list adds no entry: the list keeps its
\* length and its SSIDs in place, and at most the RSSI of one entry changes.
C16_NoDuplicateSsid ==
    /\ [](\A i, j \in 1..Len(_ssidList) :
              _ssidList[i].ssid = _ssidList[j].ssid => i = j)
    /\ [][(op'[1] = "_newSSID" /\ ListedSSIDs(_ssidList') = ListedSSIDs(_ssidList)) =>
              /\ Len(_ssidList') = Len(_ssidList)
              /\ \A i \in 1..Len(_ssidList) : _ssidList'[i].ssid = _ssidList[i].ssid
              /\ Cardinality({i \in 1..Len(_ssidList) :
                                  _ssidList'[i].rssi # _ssidList[i].rssi}) <= 1
         ]_vars

\* A report for a listed SSID raised the RSSI of the second of two entries in place.
C16_Witness ==
    /\ op = <<"_newSSID">>
    /\ Len(_ssidList) = 2
    /\ _ssidList[1].ssid # _ssidList[2].ssid
    /\ _ssidList[1].rssi < _ssidList[2].rssi

\* C17: after refreshMeadiaList, setBrowseVideos and deleteSelectedMedia the media
\* list holds exactly one item for each file of the directory of the current browse
\* mode that matches the mode's name filters and no other item, every item is a new,
\* unselected one, and the items are in descending order of file name.
C17_MediaListMatchesDirectory ==
    op[1] \in {"refreshMeadiaList", "setBrowseVideos", "deleteSelectedMedia"} =>
        LET dir == IF _browseVideos THEN videoDir ELSE photoDir
            matching == {f \in dir : f.ext \in NameFilters(_browseVideos)}
        IN  /\ {_mediaList[i].fileName : i \in 1..Len(_mediaList)} = matching
            /\ Len(_mediaList) = Cardinality(matching)
            /\ \A i \in 1..Len(_mediaList) : ~_mediaList[i].selected
            /\ \A i, j \in 1..Len(_mediaList) :
                   i < j => FileNameGreater(_mediaList[i].fileName, _mediaList[j].fileName)

\* A selected photo was deleted: the two photos that remain are listed, the one
\* with the lower-case extension first, and the text file beside them is not.
C17_Witness ==
    /\ op = <<"deleteSelectedMedia">>
    /\ ~_browseVideos
    /\ photoDir = {FileName(2, ".jpg"), FileName(2, ".JPG"), FileName(3, ".txt")}
    /\ _mediaList = <<MediaItem(FileName(2, ".jpg")), MediaItem(FileName(2, ".JPG"))>>

\* C18: setWiFiPassword(pwd) with a vehicle bound sets _password and the entry of
\* the current SSID in the credential map to pwd, leaves every other entry as it
\* was and clears the first-run flag; with no vehicle bound it leaves the
\* credential map, the persisted store, _password and the first-run flag unchanged.
C18_PasswordSetNeedsVehicle ==
    [][op'[1] = "setWiFiPassword" =>
          IF _vehicle # NULL
             THEN /\ DOMAIN _configurations' = DOMAIN _configurations \cup {_ssid}
                  /\ _configurations'[_ssid] = op'[2]
                  /\ \A k \in DOMAIN _configurations \ {_ssid} :
                         _configurations'[k] = _configurations[k]
                  /\ _password' = op'[2]
                  /\ ~_firstRun'
                  /\ ~settingsFirstRun'
             ELSE UNCHANGED <<_configurations, settingsWifi, _password, _firstRun,
                              settingsFirstRun, settingsSecondRun>>
      ]_vars

\* The password was set for a camera bound with a new password, a vehicle present.
C18_Witness ==
    /\ op[1] = "setWiFiPassword"
    /\ _vehicle # NULL
    /\ _passwordSet
    /\ _ssid = "CGOET_1"
    /\ _configurations[_ssid] = "1234567890"
    /\ ~_firstRun

\* C19: within one session shouldWeShowUpdate returns true at most once, and every
\* call made while the first-run flag is set returns false.
C19_UpdateShownOnce ==
    /\ [](dialogsShown <= 1)
    /\ [][(op'[1] = "shouldWeShowUpdate" /\ _firstRun) => op'[2] = FALSE]_vars

\* The dialog was forced once, by the date or by the firmware version, after the
\* first-run flag had been cleared.
C19_Witness ==
    /\ op = <<"shouldWeShowUpdate", TRUE>>
    /\ dialogsShown = 1
    /\ _updateShown
    /\ ~_firstRun

\* C20, as claimed: from a stopScan to the next startScan (that is, while
\* _scanEnabled is false) no scan is started: _scanWifi does not run and
\* _scanningWiFi stays false.
C20_NoScanAfterStop ==
    ~_scanEnabled => (op[1] # "_scanWifi" /\ ~_scanningWiFi)

\* C21, as claimed: after every OBSTACLE_AVOIDANCE switch event _obsState is true
\* exactly when the reported state is ON, also when the same state is reported
\* twice in a row; obsStateChanged is emitted exactly when _obsState changes; an
\* event for another switch leaves _obsState unchanged.
C21_ObsStateFollowsSwitch ==
    [][op'[1] = "_switchStateChanged" =>
          /\ op'[2] = "OBSTACLE_AVOIDANCE" => (_obsState' <=> op'[3] = "ON")
          /\ op'[2] # "OBSTACLE_AVOIDANCE" => UNCHANGED _obsState
          /\ (emitted' = <<"obsStateChanged">>) <=> (_obsState' # _obsState)
      ]_vars

\* C22, as claimed, for the timeout: the timeout timer of a bind attempt is started
\* by the attempt's _delayedBind, so a _bindTimeout that fires directly after the
\* bindWIFI call of an attempt, before that attempt's _delayedBind has run, comes
\* from an earlier attempt and does not end the new one: _bindingWiFi stays true.
C22_TimeoutOfSameAttempt ==
    [][(op[1] = "bindWIFI" /\ op'[1] = "_bindTimeout") => _bindingWiFi']_vars

\* C23, as claimed: every firmware update that starts a copy worker eventually leaves
\* the updating state.  Provided the worker thread keeps running, the worker that
\* updateSystemImage created is eventually ended by _imageUpdateDone or
\* _imageUpdateError: its thread has been stopped (the worker is deleted) and
\* _pFileCopy is NULL.
C23_UpdateLeavesUpdating ==
    \A w \in WorkerIds :
        (workers[w] = "scheduled") ~> (workers[w] = "deleted" /\ _pFileCopy = NoWorker)

\* C24, as claimed: the readiness flag is true only while a vehicle is bound.  For
\* any order of _vehicleAdded, _vehicleRemoved and _vehicleReady, in every state
\* _vehicleInReadyState implies that _vehicle is not NULL.
C24_ReadyOnlyWithVehicle == _vehicleInReadyState => _vehicle # NULL

\* C25, as claimed: no callback dereferences the hardware handler after _destroyed
\* has set it to NULL.  In particular, when the handler is destroyed while the timer
\* started by a POWER press is pending, the later _powerTrigger does not access it.
C25_NoHandlerAccessAfterDestroyed == ~nullAccess

\* C26: every _scanComplete clears _scanningWiFi.  While scanning is enabled it
\* leaves exactly one further scan scheduled, the single shot of _scanTimer (it
\* starts no other timer), and under fair timer delivery that scan is started
\* (_scanWifi runs) unless scanning is stopped first, so scans recur until stopScan.
\* While scanning is not enabled it schedules no scan: no timer is pending for
\* _scanTimer afterwards and no single shot is started.
C26_ScanCompleteReschedules ==
    /\ [][op'[1] = "_scanComplete" =>
              /\ ~_scanningWiFi'
              /\ scanShots' = scanShots
              /\ scanTimerActive' = _scanEnabled]_vars
    /\ (op[1] = "_scanComplete" /\ _scanEnabled)
           ~> (op[1] = "_scanWifi" \/ ~_scanEnabled)

\* A scan completed while scanning was enabled and while the timer of the completion
\* before it had fired: the timer is pending again.
C26_Witness ==
    /\ op = <<"_scanComplete">>
    /\ _scanEnabled
    /\ scanTimerActive
    /\ ~_scanningWiFi
    /\ scanShots = 0

\* C27, as claimed: the rotation removes old log files first.  Whenever it has
\* removed a log file, every log file it keeps was created no earlier than the
\* removed one.
C27_OldLogsRemovedFirst ==
    \A r \in logsRemoved, k \in logDir : k.created >= r.created

C29_ConnectedWithoutBindKeepsPasswords ==
    [][(op'[1] = "_wifiConnected" /\ ~_bindingWiFi) =>
           UNCHANGED <<_configurations, settingsWifi>>]_vars

\* C30, as claimed: in every reachable state _selectedCount equals the number of
\* items of the current media list whose selected flag is true, and it is never
\* negative, for any sequence of setSelected, selectAllMedia, deleteSelectedMedia,
\* refreshMeadiaList, setBrowseVideos and clearMediaItems.
C30_SelectedCountMatchesList ==
    /\ _selectedCount = Cardinality({i \in 1..Len(_mediaList) : _mediaList[i].selected})
    /\ _selectedCount >= 0

\* C31: the percentages startCopy emits with copyProgress during one run are
\* non-decreasing and lie in 0..100, and for a source that is not empty the signal
\* directly before copyDone is copyProgress(100).
C31_ProgressMonotoneTo100 ==
    /\ \A i, j \in SignalsNamed("copyProgress") :
           i < j => fcSignals[i].pct <= fcSignals[j].pct
    /\ \A i \in SignalsNamed("copyProgress") : fcSignals[i].pct \in 0..100
    /\ (SignalsNamed("copyDone") # {} /\ Len(srcFile) > 0) =>
           /\ Len(fcSignals) >= 2
           /\ fcSignals[Len(fcSignals) - 1] = CopyProgress(100)

\* A source of three bytes was copied with short reads: three different percentages,
\* then copyDone.
C31_Witness ==
    /\ fcPc = "returned"
    /\ Len(srcFile) = MaxFileLen
    /\ Len(fcSignals) = MaxFileLen + 1
    /\ fcSignals[1].name = "copyProgress" /\ fcSignals[1].pct \in 1..99
    /\ fcSignals[Len(fcSignals) - 1] = CopyProgress(100)
    /\ fcSignals[Len(fcSignals)] = CopyDone

\* The version major.minor.patch is newer than FIRMWARE_FORCE_UPDATE_MAJOR.MINOR.PATCH
\* (1.1.0) in version order.
NewerThanForceUpdate(major, minor, patch) ==
    \/ major > 1
    \/ major = 1 /\ minor > 1
    \/ major = 1 /\ minor = 1 /\ patch > 0

\* What C32 says the firmware check returns for a version.
VersionForces(major, minor, patch) ==
    /\ ~(major = 0 /\ minor = 0 /\ patch = 0)
    /\ ~NewerThanForceUpdate(major, minor, patch)

\* A call of shouldWeShowUpdate that reaches its firmware check with an active
\* vehicle of this version: not the first run, dialog not yet shown, no date-based
\* force.
ReachesFirmwareCheck(internet, major, minor, patch) ==
    /\ ~_firstRun
    /\ ~_updateShown
    /\ ~DateForces(internet)
    /\ shouldWeShowUpdate(internet, TRUE, major, minor, patch)

\* C32, as claimed: when shouldWeShowUpdate reaches its firmware check with an active
\* vehicle, it forces the dialog exactly when the custom firmware version of the
\* vehicle is not all zero and is not newer than 1.1.0 in version order.
C32_ForcesUpToShippingVersion ==
    [][\A internet \in BOOLEAN, major \in Majors, minor \in Minors, patch \in Patches :
           ReachesFirmwareCheck(internet, major, minor, patch) =>
               op'[2] = VersionForces(major, minor, patch)]_vars

\* C32, for version numbers that fit their byte of the packed word: when
\* shouldWeShowUpdate reaches its firmware check with an active vehicle whose custom
\* firmware version has major, minor and patch in 0..255, it forces the dialog
\* exactly when the version is not all zero and is not newer than 1.1.0 in version
\* order; 0.0.0 never forces the dialog.
C32_ForcesUpToShippingVersionOfBytes ==
    [][\A internet \in BOOLEAN, major \in Majors \cap 0..255,
          minor \in Minors \cap 0..255, patch \in Patches \cap 0..255 :
           ReachesFirmwareCheck(internet, major, minor, patch) =>
               /\ op'[2] = VersionForces(major, minor, patch)
               /\ (major = 0 /\ minor = 0 /\ patch = 0) => op'[2] = FALSE]_vars

\* The firmware check forced the dialog: the date did not, and the warning of the
\* firmware check was logged.
C32_Witness ==
    /\ op = <<"shouldWeShowUpdate", TRUE>>
    /\ Called("Firmware version is shipping version. Force update dialog")
    /\ _updateShown
    /\ settingsUpdateCheck = 0

\* C33: powerHeld is emitted only by the timeout of the power timer, and only when
\* at that moment the RC is not active, a vehicle is bound and it is in ready state.
\* The timer runs only while the POWER button is reported pressed: a release stops
\* it, so the timer that fires was started by a press with no release since, and no
\* powerHeld follows a press that was released before the timer fired.
C33_PowerHeldOnlyWhileHeld ==
    /\ [](powerTimerActive => powerPressed)
    /\ [][(\E i \in 1..Len(emitted') : emitted'[i] = "powerHeld") =>
              /\ op'[1] = "_powerTrigger"
              /\ op'[2] = FALSE
              /\ powerPressed
              /\ powerTimerActive
              /\ _vehicle # NULL
              /\ _vehicleInReadyState]_vars
    /\ [][(op'[1] = "_buttonStateChanged" /\ op'[2] = "POWER" /\ op'[3] # "PRESSED") =>
              ~powerTimerActive']_vars

\* The power timer fired while POWER was held, with the RC inactive and a ready
\* vehicle bound: powerHeld was emitted.
C33_Witness ==
    /\ op = <<"_powerTrigger", FALSE>>
    /\ emitted = <<"powerHeld">>
    /\ powerPressed
    /\ ~powerTimerActive
    /\ _vehicle # NULL
    /\ _vehicleInReadyState

\* QFile::copy of the first file fails in the _importMissions that was just entered.
ImportFailsAtFirstFile ==
    \E totalFiles \in 1..MaxFiles : _importMissions(TRUE, totalFiles, FALSE)

\* QFile::copy of a later file fails in the innermost _importMissions.
ImportFailsAtLaterFile ==
    /\ impStack # <<>>
    /\ impStack[Len(impStack)].curCount < impStack[Len(impStack)].totalFiles
    /\ importResume(FALSE)

\* C34: when copying one mission file fails during _importMissions, that invocation
\* stops at the file: it returns without copying a later file (it leaves the stack
\* and reports no further progress), the message is 'Error importing' with the
\* failing file, _copyingFiles is false and _copyingDone is true afterwards, and no
\* new single shot for _importMissions is started, so the import is not retried.
C34_ImportStopsAtFailedFile ==
    [][/\ ImportFailsAtFirstFile =>
              /\ _copyMessage' = ImportError(1)
              /\ ~_copyingFiles' /\ _copyingDone'
              /\ impStack' = impStack
              /\ _updateProgress' = 0
              /\ importShots' = importShots - 1
       /\ ImportFailsAtLaterFile =>
              /\ _copyMessage' = ImportError(impStack[Len(impStack)].curCount + 1)
              /\ ~_copyingFiles' /\ _copyingDone'
              /\ impStack' = SubSeq(impStack, 1, Len(impStack) - 1)
              /\ UNCHANGED _updateProgress
              /\ UNCHANGED importShots]_vars

\* The second file of an import failed to copy: the import has returned with the
\* error message for that file, after the progress of the first file.
C34_Witness ==
    /\ op = <<"_importMissions resumed">>
    /\ _copyMessage = ImportError(2)
    /\ ~_copyingFiles
    /\ _copyingDone
    /\ impStack = <<>>
    /\ importShots = 0
    /\ _updateProgress = CopyProgressValue(MaxFiles, 1)

\* C35, as claimed: the copy workflow flags are mutually exclusive.  In every
\* reachable state, for any sequence of initExport, exportData, cancelExportData,
\* _exportCompleted, importMission and _importMissions, _copyingFiles and
\* _copyingDone are never both true.
C35_CopyFlagsExclusive == ~(_copyingFiles /\ _copyingDone)

\* C36, as claimed: periodic flight-time ticks occur only while a vehicle is bound.
\* The flight timer does not keep ticking after the bound vehicle has been removed:
\* every _flightUpdate (flightTimeChanged from the timer) finds _vehicle not NULL.
C36_TicksOnlyWhileVehicleBound ==
    [][op'[1] = "_flightUpdate" => _vehicle # NULL]_vars

====
